---- MODULE Spec2Model ----
(***************************************************************************)
(* The icon cache of libnautilus-private/nautilus-icon-factory.c: the hash *)
(* table of CacheIcons, their reference counts, the circular recently-used *)
(* list and the sweep timer.                                               *)
(*                                                                         *)
(* C strings are sequences of character codes; a char* is a record that is *)
(* either the null pointer or points to such a sequence.  CacheIcons live  *)
(* in a heap of numbered blocks; list nodes are named by the index of the  *)
(* icon that embeds them, HEAD is factory->recently_used_dummy_head.       *)
(***************************************************************************)
EXTENDS Integers, Sequences, FiniteSets, TLC

\* ------------------------------------------------------------- bounds
MaxIcons == 5
MaxMtime == 1
NumFillKeys == 22
MaxIconsLRU == 25

\* ---------------------------------------------------- program constants
ICON_CACHE_COUNT == 20
ICON_MAX_AGE == 10
\* guint wraps below 0 to 2^32 - 1; the largest integer the checker has
\* stands for it (only its being far above ICON_CACHE_COUNT is ever used)
GUINT_MAX == 2147483647
\* the hash values are kept to their low 16 bits
HashMod == 65536
DjbSeed == 5381

NULL == -1
HEAD == 0

\* ------------------------------------------------------------ strings
NullStr == [null |-> TRUE, s |-> << >>]
Str(s) == [null |-> FALSE, s |-> s]

\* "folder", "open", "nx" (an icon the theme does not have), "" and "/a"
s_folder == <<102, 111, 108, 100, 101, 114>>
s_open == <<111, 112, 101, 110>>
s_nx == <<110, 120>>
s_empty == << >>
s_path_a == <<47, 97>>
\* "/.thumbnails/", the thumbnail file "/.thumbnails/t" and
\* ICON_NAME_THUMBNAIL_LOADING, "gnome-fs-loading-icon"
s_thumbnails_dir == <<47, 46, 116, 104, 117, 109, 98, 110, 97, 105, 108, 115, 47>>
s_thumb_t == s_thumbnails_dir \o <<116>>
ICON_NAME_THUMBNAIL_LOADING ==
    <<103, 110, 111, 109, 101, 45, 102, 115, 45, 108, 111, 97, 100, 105,
      110, 103, 45, 105, 99, 111, 110>>
c_slash == 47
c_dash == 45

\* eel_strcmp (a, b) == 0: a null pointer compares as the empty string
eel_strcmp_eq(a, b) ==
    (IF a.null THEN << >> ELSE a.s) = (IF b.null THEN << >> ELSE b.s)

\* icon[0] == '/'
is_absolute(name) == Len(name.s) > 0 /\ name.s[1] = c_slash

\* ---------------------------------------------------------------- keys
CacheKey(name, modifier, nominal_size, force_nominal) ==
    [name |-> name, modifier |-> modifier,
     nominal_size |-> nominal_size, force_nominal |-> force_nominal]

\* mutant: the comparison leaves force_nominal out
cache_key_equal_without_force(a, b) ==
    /\ eel_strcmp_eq(a.name, b.name)
    /\ a.nominal_size = b.nominal_size
    /\ eel_strcmp_eq(a.modifier, b.modifier)

cache_key_equal(a, b) ==
    /\ eel_strcmp_eq(a.name, b.name)
    /\ a.nominal_size = b.nominal_size
    /\ a.force_nominal = b.force_nominal
    /\ eel_strcmp_eq(a.modifier, b.modifier)

\* a ^ b on unsigned values
RECURSIVE bit_xor(_, _)
bit_xor(a, b) ==
    IF a = 0 THEN b
    ELSE IF b = 0 THEN a
    ELSE ((a + b) % 2) + 2 * bit_xor(a \div 2, b \div 2)

\* the loop of g_str_hash: h = (h << 5) + h + c, or (h << 5) - h + c in the
\* older version
RECURSIVE str_hash_loop(_, _, _)
str_hash_loop(h, s, factor) ==
    IF s = << >> THEN h
    ELSE str_hash_loop((h * factor + Head(s)) % HashMod, Tail(s), factor)

\* g_str_hash of a string that is not the null pointer
g_str_hash(s, djb) ==
    IF djb THEN str_hash_loop(DjbSeed, s, 33)
    ELSE IF s = << >> THEN 0
    ELSE str_hash_loop(Head(s), Tail(s), 31)

\* if (key->modifier) hash ^= g_str_hash (key->modifier)
xor_modifier(h, modifier, djb) ==
    IF modifier.null THEN h ELSE bit_xor(h, g_str_hash(modifier.s, djb))

\* cache_key_hash; the name must not be the null pointer
cache_key_hash(k, djb) ==
    xor_modifier(bit_xor(g_str_hash(k.name.s, djb),
                         (k.nominal_size * 16 + k.force_nominal) % HashMod),
                 k.modifier, djb)

\* --------------------------------------------------------- environment
\* the names gtk_icon_theme_lookup_icon finds in the icon theme
ThemeIcons == {s_folder, ICON_NAME_THUMBNAIL_LOADING}

\* g_strconcat (icon, "-", modifier, NULL), or icon itself without modifier
name_with_modifier(icon, modifier) ==
    IF modifier.null THEN icon.s ELSE icon.s \o <<c_dash>> \o modifier.s

Paths == {s_path_a}
FileStates ==
    {[isreg |-> FALSE, mtime |-> 0, ok |-> FALSE]} \cup
    [isreg : {TRUE}, mtime : 0..MaxMtime, ok : BOOLEAN]

VARIABLES
    icon_cache,            \* factory->icon_cache: stored CacheKey -> icon
    ref_count,             \* icon->ref_count
    pixbuf_ref,            \* G_OBJECT (icon->pixbuf)->ref_count
    mtime,                 \* icon->mtime
    age,                   \* icon->age
    status,                \* "unalloc", "live" or "freed" (g_free'd)
    next,                  \* node->next, for HEAD and every icon's node
    prev,                  \* node->prev
    recently_used_count,   \* factory->recently_used_count
    sweep_timer,           \* factory->sweep_timer (0: none pending)
    pending_timeouts,      \* the timeout sources g_timeout_add has armed for
                           \* the factory and that have not fired yet
    fs,                    \* what stat() and the image loader see per path
    pc,                    \* position inside get_pixbuf_for_icon
    cur,                   \* arguments of the call in progress
    ret,                   \* cached_icon returned by get_icon_from_cache
    err,                   \* "" or the failed assertion / crash
    last_get,              \* the get just completed: key, icon, whether it
                           \* repeated the get before it, whether it found
                           \* a stale entry
    run,                   \* keys of the gets made since the last other call
    fill_next,             \* caller's next unused size in the fill scenario
    glib_djb,              \* which g_str_hash the build links: the one that
                           \* starts from 5381 (TRUE) or the older one that
                           \* starts from the first character (FALSE)
    last_op,               \* the last call made on the factory and its result
    key_a, key_b,          \* two CacheKeys handed to the functions of the table
    key_cmp,               \* what cache_key_equal and cache_key_hash made of them
    async_thumbnail_load_handles,
                           \* factory->async_thumbnail_load_handles, each
                           \* handle with the path and the data of its request
    is_thumbnailing,       \* the flag of the file whose thumbnail is loaded
    file_changed,          \* the last thumbnail arrival: whether
                           \* nautilus_file_changed was called, and whether
                           \* the key was in the table by then
    cancelled,             \* the loads nautilus_thumbnail_load_image_cancel
                           \* was called for
    size_arg,              \* a size handed to the size functions
    size_result,           \* what they returned for it
    zoom_sizes,            \* zoom level -> nautilus_get_icon_size_for_zoom_level
    thumbnail_delivered,   \* the keys a thumbnail has arrived for, with
                           \* nautilus_file_changed called, the file being
                           \* as it was then
    window,                \* the navigation window: location, the current
                           \* and the last location bookmark, back_list,
                           \* forward_list and the pending location change
    round_trip             \* the lists and the location before the last
                           \* go-back, while the steps since are that
                           \* go-back and a go-forward by its distance

\* what the steps of the cache never change by themselves
sizes == <<size_arg, size_result, zoom_sizes>>
navigation == <<window, round_trip>>
aside == <<glib_djb, key_a, key_b, key_cmp,
           async_thumbnail_load_handles, is_thumbnailing, file_changed,
           cancelled, sizes, thumbnail_delivered, navigation>>

vars == <<icon_cache, ref_count, pixbuf_ref, mtime, age, status, next, prev,
          recently_used_count, sweep_timer, pending_timeouts, fs, pc, cur,
          ret, err,
          last_get, run, fill_next, aside, last_op>>

fallback_icon == 1

\* EmptyCache: a function with an empty domain
EmptyCache == [k \in {} |-> NULL]

\* ------------------------------------------------------------ the heap
\* The mutable part of the factory that the helpers below update in turn.
Heap ==
    [ref_count |-> ref_count, pixbuf_ref |-> pixbuf_ref, mtime |-> mtime,
     age |-> age, status |-> status, next |-> next, prev |-> prev,
     recently_used_count |-> recently_used_count,
     icon_cache |-> icon_cache, sweep_timer |-> sweep_timer, err |-> err,
     djb |-> glib_djb, pending_timeouts |-> pending_timeouts]

SetHeap(H) ==
    /\ ref_count' = H.ref_count
    /\ pixbuf_ref' = H.pixbuf_ref
    /\ mtime' = H.mtime
    /\ age' = H.age
    /\ status' = H.status
    /\ next' = H.next
    /\ prev' = H.prev
    /\ recently_used_count' = H.recently_used_count
    /\ icon_cache' = H.icon_cache
    /\ sweep_timer' = H.sweep_timer
    /\ pending_timeouts' = H.pending_timeouts
    /\ err' = H.err

Fail(H, what) == IF H.err = "" THEN [H EXCEPT !.err = what] ELSE H

\* -------------------------------------------------- reference counting
\* The allocator: g_new0 hands out some block that is not in use.  Which
\* one is no business of the program, so the model fixes the choice: the
\* free block nearest to a hint taken from the key being loaded (a freed
\* block may be handed out again; one whose pixbuf a caller still holds
\* keeps its number so that the pixbuf stays apart).
free_slots(H) ==
    {i \in DOMAIN H.status : H.status[i] # "live" /\ H.pixbuf_ref[i] = 0}

distance(i, j) == IF i < j THEN j - i ELSE i - j

new_slot(H, hint) ==
    CHOOSE i \in free_slots(H) :
        \A j \in free_slots(H) :
            \/ distance(i, hint) < distance(j, hint)
            \/ distance(i, hint) = distance(j, hint) /\ i <= j

slot_hint(k) ==
    IF is_absolute(k.name) THEN 2
    ELSE IF k.modifier.null THEN 3 + k.nominal_size
    ELSE 3

\* cache_icon_new: a fresh CacheIcon with ref_count 1 that holds the one
\* reference to its pixbuf left once the creator has dropped its own.
cache_icon_new(H, mt, hint) ==
    LET i == new_slot(H, hint) IN
    [H EXCEPT !.status[i] = "live",
              !.ref_count[i] = 1,
              !.pixbuf_ref[i] = 1,
              !.mtime[i] = mt,
              !.age[i] = 0,
              !.next[i] = NULL,
              !.prev[i] = NULL]

\* mutant: the reference is handed out without being counted
cache_icon_ref_uncounted(H, i) ==
    IF i = NULL \/ H.status[i] # "live" THEN Fail(H, "use_after_free")
    ELSE IF H.ref_count[i] < 1 THEN Fail(H, "assert_ref_count")
    ELSE H

cache_icon_ref(H, i) ==
    IF i = NULL \/ H.status[i] # "live" THEN Fail(H, "use_after_free")
    ELSE IF H.ref_count[i] < 1 THEN Fail(H, "assert_ref_count")
    ELSE [H EXCEPT !.ref_count[i] = @ + 1]

\* mutant: the node is unlinked but the count of the list is left as it was
unlink_node_keeps_count(H, node) ==
    LET A == [H EXCEPT !.prev[H.next[node]] = H.prev[node]]
        B == [A EXCEPT !.next[A.prev[node]] = A.next[node]]
    IN [B EXCEPT !.next[node] = NULL, !.prev[node] = NULL]

\* mutant: the node before the one unlinked still points to it
unlink_node_one_way(H, node) ==
    LET A == [H EXCEPT !.prev[H.next[node]] = H.prev[node]]
    IN [A EXCEPT !.next[node] = NULL,
                 !.prev[node] = NULL,
                 !.recently_used_count = IF @ = 0 THEN GUINT_MAX ELSE @ - 1]

\* the unlinking branch of cache_icon_unref (node->next != NULL)
unlink_node(H, node) ==
    LET A == [H EXCEPT !.prev[H.next[node]] = H.prev[node]]
        B == [A EXCEPT !.next[A.prev[node]] = A.next[node]]
    IN [B EXCEPT !.next[node] = NULL,
                 !.prev[node] = NULL,
                 !.recently_used_count = IF @ = 0 THEN GUINT_MAX ELSE @ - 1]

\* g_object_unref (pixbuf) on the count of a pixbuf; for the NULL pointer
\* it logs a critical and returns, and nothing is left to count
g_object_unref(count) == IF count = NULL THEN 0 ELSE count - 1

\* g_object_ref (pixbuf) likewise
g_object_ref(count) == IF count = NULL THEN NULL ELSE count + 1

\* the tail of cache_icon_unref: g_object_unref (icon->pixbuf); g_free (icon)
\* (what the freed block held is dead: mtime and age read as 0 from then on)
free_icon(H, i) ==
    [H EXCEPT !.pixbuf_ref[i] = g_object_unref(@), !.status[i] = "freed",
              !.mtime[i] = 0, !.age[i] = 0]

\* mutant: the last unref frees the icon without unlinking its node
cache_icon_unref_no_unlink(H, i) ==
    IF i = NULL \/ H.status[i] # "live" THEN Fail(H, "use_after_free")
    ELSE IF H.ref_count[i] < 1 THEN Fail(H, "assert_ref_count")
    ELSE IF H.ref_count[i] > 1 THEN [H EXCEPT !.ref_count[i] = @ - 1]
    ELSE free_icon([H EXCEPT !.ref_count[i] = 0], i)

\* mutant: the last unref leaves an icon that is in the list alone
cache_icon_unref_deferred(H, i) ==
    IF i = NULL \/ H.status[i] # "live" THEN Fail(H, "use_after_free")
    ELSE IF H.ref_count[i] < 1 THEN Fail(H, "assert_ref_count")
    ELSE IF H.ref_count[i] > 1 THEN [H EXCEPT !.ref_count[i] = @ - 1]
    ELSE LET Z == [H EXCEPT !.ref_count[i] = 0]
         IN IF Z.next[i] # NULL THEN Z ELSE free_icon(Z, i)

cache_icon_unref(H, i) ==
    IF i = NULL \/ H.status[i] # "live" THEN Fail(H, "use_after_free")
    ELSE IF H.ref_count[i] < 1 THEN Fail(H, "assert_ref_count")
    ELSE IF H.ref_count[i] > 1 THEN [H EXCEPT !.ref_count[i] = @ - 1]
    ELSE LET Z == [H EXCEPT !.ref_count[i] = 0]
             U == IF Z.next[i] # NULL THEN unlink_node(Z, i) ELSE Z
         IN free_icon(U, i)

\* ------------------------------------------------- recently-used list
\* mutant: the node taken off the end of the list is released as well
bump_last_node_and_release(H) ==
    LET last_node == H.prev[HEAD]
        A == [H EXCEPT !.prev[HEAD] = H.prev[last_node]]
        B == [A EXCEPT !.next[A.prev[last_node]] = HEAD]
        C == [B EXCEPT !.prev[last_node] = NULL, !.next[last_node] = NULL]
    IN cache_icon_unref(C, last_node)

\* the "remove the last node" branch of mark_recently_used
bump_last_node(H) ==
    LET last_node == H.prev[HEAD]
        A == [H EXCEPT !.prev[HEAD] = H.prev[last_node]]
        B == [A EXCEPT !.next[A.prev[last_node]] = HEAD]
    IN [B EXCEPT !.prev[last_node] = NULL, !.next[last_node] = NULL]

\* mutant: the node is put after the head, the node that follows it is not
\* told
insert_at_head_no_back_link(H, node) ==
    LET A == [H EXCEPT !.prev[node] = HEAD, !.next[node] = H.next[HEAD]]
    IN [A EXCEPT !.next[HEAD] = node]

\* the final "insert the node at the head of the list" of mark_recently_used
insert_at_head(H, node) ==
    LET A == [H EXCEPT !.prev[node] = HEAD, !.next[node] = H.next[HEAD]]
        B == [A EXCEPT !.prev[A.next[node]] = node]
    IN [B EXCEPT !.next[HEAD] = node]

\* mutant: a node that is in the list already stays where it is
mark_recently_used_new_only(H, node) ==
    IF H.next[node] = NULL
    THEN LET R == IF H.recently_used_count < ICON_CACHE_COUNT
                  THEN [H EXCEPT !.recently_used_count = @ + 1]
                  ELSE bump_last_node(H)
         IN insert_at_head(R, node)
    ELSE H

\* mutant: the list takes one node more than ICON_CACHE_COUNT
mark_recently_used_off_by_one(H, node) ==
    IF H.prev[node] # HEAD
    THEN LET R == IF H.next[node] # NULL
                  THEN LET A == [H EXCEPT !.prev[H.next[node]] = H.prev[node]]
                       IN [A EXCEPT !.next[A.prev[node]] = A.next[node]]
                  ELSE IF H.recently_used_count <= ICON_CACHE_COUNT
                       THEN [H EXCEPT !.recently_used_count = @ + 1]
                       ELSE bump_last_node(H)
         IN insert_at_head(R, node)
    ELSE H

mark_recently_used(H, node) ==
    IF H.prev[node] # HEAD
    THEN LET R == IF H.next[node] # NULL
                  THEN LET A == [H EXCEPT !.prev[H.next[node]] = H.prev[node]]
                       IN [A EXCEPT !.next[A.prev[node]] = A.next[node]]
                  ELSE IF H.recently_used_count < ICON_CACHE_COUNT
                       THEN [H EXCEPT !.recently_used_count = @ + 1]
                       ELSE bump_last_node(H)
         IN insert_at_head(R, node)
    ELSE H

\* ----------------------------------------------------------- hash table
\* whether a lookup for k comes upon the stored key kk: the hash values
\* must agree for the two to be compared at all (a key hashes like itself)
key_matches(kk, k, djb) ==
    /\ cache_key_equal(kk, k)
    /\ kk = k \/ cache_key_hash(kk, djb) = cache_key_hash(k, djb)

\* the key stored in the table that a lookup for k finds, if any; two
\* stored keys never both match, since the second would have replaced the
\* first when it was inserted
stored_key(H, k) == {kk \in DOMAIN H.icon_cache : key_matches(kk, k, H.djb)}

\* the value stored under the key found, NULL if none was
hash_table_value(H, ks) ==
    IF ks = {} THEN NULL ELSE H.icon_cache[CHOOSE kk \in ks : TRUE]

\* mutant: the lookup never finds anything
lookup_never_finds(H, k) == NULL

lookup_icon_from_cache(H, k) == hash_table_value(H, stored_key(H, k))

\* mutant: the value that is replaced is not released
hash_table_insert_keeps_old(H, k, value) ==
    IF stored_key(H, k) = {}
    THEN [H EXCEPT !.icon_cache = @ @@ (k :> value)]
    ELSE [H EXCEPT !.icon_cache[CHOOSE x \in stored_key(H, k) : TRUE] = value]

\* g_hash_table_insert: an equal key keeps its stored key, the old value
\* goes to the value destroy function cache_icon_unref
hash_table_insert(H, k, value) ==
    IF stored_key(H, k) = {}
    THEN [H EXCEPT !.icon_cache = @ @@ (k :> value)]
    ELSE LET kk == CHOOSE x \in stored_key(H, k) : TRUE
             U == cache_icon_unref(H, H.icon_cache[kk])
         IN [U EXCEPT !.icon_cache[kk] = value]

\* removing one stored key: key and value destroy functions run
hash_table_remove_key(H, kk) ==
    LET U == cache_icon_unref(H, H.icon_cache[kk])
    IN [U EXCEPT !.icon_cache = [x \in (DOMAIN @) \ {kk} |-> @[x]]]

\* g_hash_table_foreach_remove for the keys the predicate chose
RECURSIVE hash_table_remove_keys(_, _)
hash_table_remove_keys(H, ks) ==
    IF ks = {} THEN H
    ELSE LET kk == CHOOSE x \in ks : TRUE
         IN hash_table_remove_keys(hash_table_remove_key(H, kk), ks \ {kk})

\* --------------------------------------------------------------- sweep
\* mutant: a timer is armed whether or not one is pending
schedule_sweep_unconditionally(H) ==
    [H EXCEPT !.sweep_timer = 1, !.pending_timeouts = @ + 1]

\* g_timeout_add arms one more source and returns its id, which is never 0
nautilus_icon_factory_schedule_sweep(H) ==
    IF H.sweep_timer # 0 THEN H
    ELSE [H EXCEPT !.sweep_timer = 1, !.pending_timeouts = @ + 1]

\* mutant: the sweep forgets the recently used list
possibly_free_ignoring_list(H, icon) ==
    IF H.pixbuf_ref[icon] > 1 THEN [H |-> H, remove |-> FALSE]
    ELSE [H |-> [H EXCEPT !.age[icon] = @ + 1], remove |-> TRUE]

\* mutant: the sweep forgets that the pixbuf may be in use
possibly_free_ignoring_pixbuf(H, icon) ==
    IF H.next[icon] # NULL THEN [H |-> H, remove |-> FALSE]
    ELSE [H |-> [H EXCEPT !.age[icon] = @ + 1], remove |-> TRUE]

\* Don't free an entry that is in the recently used list or whose pixbuf
\* is still in use; otherwise age it and tell the table to remove it.
\* G_OBJECT (icon->pixbuf)->ref_count reads through icon->pixbuf: an icon
\* whose pixbuf is NULL ends the program there.
nautilus_icon_factory_possibly_free_cached_icon(H, icon) ==
    IF H.next[icon] # NULL THEN [H |-> H, remove |-> FALSE]
    ELSE IF H.pixbuf_ref[icon] = NULL
         THEN [H |-> Fail(H, "null_dereference"), remove |-> FALSE]
    ELSE IF H.pixbuf_ref[icon] > 1 THEN [H |-> H, remove |-> FALSE]
    ELSE LET A == [H EXCEPT !.age[icon] = @ + 1]
         IN IF A.age[icon] > ICON_MAX_AGE
            THEN [H |-> A, remove |-> TRUE]
            ELSE [H |-> A, remove |-> TRUE]

\* g_hash_table_foreach_remove with the sweep predicate, one entry at a
\* time; the walk ends where the predicate ends the program
RECURSIVE sweep_entries(_, _)
sweep_entries(H, ks) ==
    IF ks = {} \/ H.err # "" THEN H
    ELSE LET kk == CHOOSE x \in ks : TRUE
             P == nautilus_icon_factory_possibly_free_cached_icon(
                      H, H.icon_cache[kk])
             N == IF P.remove THEN hash_table_remove_key(P.H, kk) ELSE P.H
         IN sweep_entries(N, ks \ {kk})

\* the end of the callback: factory->sweep_timer = 0 and return FALSE, so
\* the source that fired is gone; not reached if the walk ended the program
sweep_done(S) ==
    IF S.err # "" THEN S
    ELSE [S EXCEPT !.sweep_timer = 0, !.pending_timeouts = @ - 1]

nautilus_icon_factory_sweep(H) ==
    sweep_done(sweep_entries(H, DOMAIN H.icon_cache))

\* --------------------------------------------------------------- clear
\* mutant: the predicate for icon names takes pathnames as well
remove_pathnames_too(k) == TRUE

remove_non_pathnames(k) == ~(~k.name.null /\ is_absolute(k.name))

\* mutant: clearing the cache schedules a sweep of what is left
clear_and_schedule_sweep(H, clear_pathnames) ==
    LET ks == {k \in DOMAIN H.icon_cache :
                   clear_pathnames \/ remove_non_pathnames(k)}
    IN nautilus_icon_factory_schedule_sweep(hash_table_remove_keys(H, ks))

nautilus_icon_factory_clear(H, clear_pathnames) ==
    LET ks == {k \in DOMAIN H.icon_cache :
                   clear_pathnames \/ remove_non_pathnames(k)}
        R == hash_table_remove_keys(H, ks)
    IN IF ~clear_pathnames THEN R
       ELSE IF R.recently_used_count \notin {0, 1}
            THEN Fail(R, "assert_clear_count")
       ELSE IF R.recently_used_count = 1 /\ R.next[HEAD] # R.prev[HEAD]
            THEN Fail(R, "assert_clear_single")
       ELSE IF R.recently_used_count = 1 /\ R.next[HEAD] # fallback_icon
            THEN Fail(R, "assert_clear_fallback")
       ELSE R

\* ----------------------------------------------------------------- get
\* stat (icon, &statbuf) == 0 && S_ISREG (statbuf.st_mode)
stat_is_regular(name) == name.s \in DOMAIN fs /\ fs[name.s].isreg

\* create_normal_cache_icon: whether it returns an icon, and the mtime the
\* new icon gets
create_normal_cache_icon(icon, modifier, nominal_size, force_nominal) ==
    IF is_absolute(icon)
    THEN IF stat_is_regular(icon) /\ fs[icon.s].ok
         THEN [found |-> TRUE, mtime |-> fs[icon.s].mtime]
         ELSE [found |-> FALSE, mtime |-> 0]
    ELSE IF name_with_modifier(icon, modifier) \in ThemeIcons
         THEN [found |-> TRUE, mtime |-> 0]
         ELSE [found |-> FALSE, mtime |-> 0]

\* mutant: no second try without the modifier
load_and_insert_no_retry(H, k) ==
    LET c1 == create_normal_cache_icon(k.name, k.modifier,
                                       k.nominal_size, k.force_nominal)
        N == IF c1.found THEN cache_icon_new(H, c1.mtime, slot_hint(k))
             ELSE cache_icon_ref(H, fallback_icon)
        icon == IF c1.found THEN new_slot(H, slot_hint(k)) ELSE fallback_icon
    IN [H |-> hash_table_insert(N, k, icon), icon |-> icon]

\* mutant: the fallback icon is inserted without taking a reference for
\* the table
load_and_insert_no_ref(H, k) ==
    LET c1 == create_normal_cache_icon(k.name, k.modifier,
                                       k.nominal_size, k.force_nominal)
        c2 == IF ~c1.found /\ ~k.modifier.null
              THEN create_normal_cache_icon(k.name, NullStr,
                                            k.nominal_size, k.force_nominal)
              ELSE c1
        N == IF c2.found THEN cache_icon_new(H, c2.mtime, slot_hint(k))
             ELSE H
        icon == IF c2.found THEN new_slot(H, slot_hint(k)) ELSE fallback_icon
    IN [H |-> hash_table_insert(N, k, icon), icon |-> icon]

\* the cache-miss branch of get_icon_from_cache: the icon to use and the
\* table after inserting it under the requested key
load_and_insert(H, k) ==
    LET c1 == create_normal_cache_icon(k.name, k.modifier,
                                       k.nominal_size, k.force_nominal)
        c2 == IF ~c1.found /\ ~k.modifier.null
              THEN create_normal_cache_icon(k.name, NullStr,
                                            k.nominal_size, k.force_nominal)
              ELSE c1
        N == IF c2.found THEN cache_icon_new(H, c2.mtime, slot_hint(k))
             ELSE cache_icon_ref(H, fallback_icon)
        icon == IF c2.found THEN new_slot(H, slot_hint(k)) ELSE fallback_icon
    IN [H |-> hash_table_insert(N, k, icon), icon |-> icon]

\* mutant: the reload test forgets to compare the modification times
is_stale_no_mtime(H, k, found) ==
    /\ found # NULL
    /\ is_absolute(k.name)
    /\ ~stat_is_regular(k.name)

\* the reload test of get_icon_from_cache for absolute filenames
is_stale(H, k, found) ==
    /\ found # NULL
    /\ is_absolute(k.name)
    /\ \/ ~stat_is_regular(k.name)
       \/ fs[k.name.s].mtime # H.mtime[found]

\* get_icon_from_cache from the lookup to the reference handed back to the
\* caller: the entry found or made, and the cache with that reference taken
get_icon_referenced(H, k) ==
    LET found == lookup_icon_from_cache(H, k)
        cached == IF is_stale(H, k, found) THEN NULL ELSE found
        M == IF cached = NULL THEN load_and_insert(H, k)
             ELSE [H |-> H, icon |-> cached]
    IN [H |-> cache_icon_ref(M.H, M.icon), icon |-> M.icon]

\* the end of get_icon_from_cache, from mark_recently_used on
mark_used_and_return(H, icon) ==
    LET L == mark_recently_used(H, icon)
        A == [L EXCEPT !.age[icon] = 0]
    IN [H |-> nautilus_icon_factory_schedule_sweep(A), ret |-> icon]

get_icon_with_ref(R) == mark_used_and_return(R.H, R.icon)

\* get_icon_from_cache after its g_return_val_if_fail
get_icon_unchecked(H, k) == get_icon_with_ref(get_icon_referenced(H, k))

\* mutant: the g_return_val_if_fail on the name is missing
get_icon_from_cache_no_check(H, k) == get_icon_unchecked(H, k)

get_icon_from_cache(H, k) ==
    IF k.name.null THEN [H |-> H, ret |-> NULL]
    ELSE get_icon_unchecked(H, k)

\* ------------------------------------------------------------- actions
NoKey == CacheKey(NullStr, NullStr, 0, 0)
NoCall == [key |-> NoKey]
NoGet == [valid |-> FALSE, key |-> NoKey, icon |-> NULL,
          repeat |-> FALSE, stale |-> FALSE]

\* the gets made one after the other on distinct keys, at most
\* ICON_CACHE_COUNT + 1 of them
run_after(k, icon, track) ==
    IF ~track \/ icon = NULL THEN << >>
    ELSE IF \E j \in 1..Len(run) : cache_key_equal(run[j].key, k)
         THEN <<[key |-> k, icon |-> icon]>>
    ELSE IF Len(run) > ICON_CACHE_COUNT
         THEN Append(Tail(run), [key |-> k, icon |-> icon])
    ELSE Append(run, [key |-> k, icon |-> icon])

\* nautilus_icon_factory_get_pixbuf_for_icon up to the return of
\* get_icon_from_cache
GetIcon(k, track, fn) ==
    /\ pc = "idle"
    /\ err = ""
    /\ LET G == get_icon_from_cache(Heap, k) IN
         /\ free_slots(Heap) # {}
         /\ SetHeap(G.H)
         /\ ret' = G.ret
         /\ last_get' =
                IF G.ret = NULL THEN NoGet
                ELSE [valid |-> TRUE, key |-> k, icon |-> G.ret,
                      repeat |-> last_get.valid /\ last_get.key = k,
                      stale |-> is_stale(Heap, k,
                                         lookup_icon_from_cache(Heap, k))]
         /\ run' = run_after(k, G.ret, track)
    /\ pc' = "got"
    /\ cur' = [key |-> k]
    /\ fill_next' = fn
    /\ UNCHANGED fs

\* the rest of nautilus_icon_factory_get_pixbuf_for_icon: the caller gets
\* the pixbuf (or NULL) and the CacheIcon reference is dropped.  With keep
\* FALSE the caller drops the pixbuf again before anything else runs.
\* wants_default is the argument of the call; nothing reads it before this
\* point, so it is drawn here.
\* mutant: a caller that does not want the default icon costs the fallback
\* icon a reference it never took
return_pixbuf_drops_two(H, icon, wants_default, keep) ==
    IF icon = NULL THEN Fail(H, "null_dereference")
    ELSE IF ~wants_default /\ icon = fallback_icon
         THEN cache_icon_unref(cache_icon_unref(H, icon), icon)
    ELSE LET P == [H EXCEPT !.pixbuf_ref[icon] = g_object_ref(@)]
             U == cache_icon_unref(P, icon)
         IN IF keep \/ H.pixbuf_ref[icon] = NULL THEN U
            ELSE [U EXCEPT !.pixbuf_ref[icon] = @ - 1]

return_pixbuf(H, icon, wants_default, keep) ==
    IF icon = NULL THEN Fail(H, "null_dereference")
    ELSE IF ~wants_default /\ icon = fallback_icon
         THEN cache_icon_unref(H, icon)
    ELSE LET P == [H EXCEPT !.pixbuf_ref[icon] = g_object_ref(@)]
             U == cache_icon_unref(P, icon)
         IN IF keep \/ H.pixbuf_ref[icon] = NULL THEN U
            ELSE [U EXCEPT !.pixbuf_ref[icon] = @ - 1]

ReturnPixbuf(wants_default, keep, holdable) ==
    /\ pc = "got"
    /\ err = ""
    /\ keep => /\ ret # NULL
               /\ cur.key \in holdable
               /\ pixbuf_ref[ret] = 1
               /\ wants_default \/ ret # fallback_icon
    /\ SetHeap(return_pixbuf(Heap, ret, wants_default, keep))
    /\ pc' = "idle"
    /\ cur' = NoCall
    /\ ret' = NULL
    /\ UNCHANGED <<fs, last_get, run, fill_next>>

\* a caller drops a pixbuf it was given: g_object_unref (pixbuf)
UnrefPixbuf(i) ==
    /\ pc = "idle"
    /\ err = ""
    /\ pixbuf_ref[i] > (IF status[i] = "live" THEN 1 ELSE 0)
    /\ pixbuf_ref' = [pixbuf_ref EXCEPT ![i] = @ - 1]
    /\ UNCHANGED <<icon_cache, ref_count, mtime, age, status, next, prev,
                   recently_used_count, sweep_timer, pending_timeouts, fs,
                   pc, cur, ret, err, last_get, run, fill_next>>

\* the sweep timer fires
SweepTimeout ==
    /\ pc = "idle"
    /\ err = ""
    /\ sweep_timer # 0
    /\ SetHeap(nautilus_icon_factory_sweep(Heap))
    /\ last_get' = NoGet
    /\ run' = << >>
    /\ UNCHANGED <<fs, pc, cur, ret, fill_next>>

\* theme and mime data changes clear icon names only, preference changes
\* clear everything
Clear(clear_pathnames) ==
    /\ pc = "idle"
    /\ err = ""
    /\ SetHeap(nautilus_icon_factory_clear(Heap, clear_pathnames))
    /\ last_get' = NoGet
    /\ run' = << >>
    /\ UNCHANGED <<fs, pc, cur, ret, fill_next>>

\* nautilus_icon_factory_remove_from_cache: lookup_key.force_nominal is
\* never set, so the lookup sees whatever the stack holds there.  The
\* table hashes the lookup key first, and g_str_hash reads the name.
\* Gives the factory afterwards and what g_hash_table_remove returned.
nautilus_icon_factory_remove_from_cache(H, icon_name, modifier, size, garbage) ==
    IF icon_name.null
    THEN [H |-> Fail(H, "null_dereference"), ret |-> FALSE]
    ELSE LET ks == stored_key(H, CacheKey(icon_name, modifier, size, garbage))
         IN [H |-> hash_table_remove_keys(H, ks), ret |-> ks # {}]

RemoveFromCache(icon_name, modifier, size, garbage) ==
    /\ pc = "idle"
    /\ err = ""
    /\ SetHeap(nautilus_icon_factory_remove_from_cache(
                   Heap, icon_name, modifier, size, garbage).H)
    /\ last_get' = NoGet
    /\ run' = << >>
    /\ UNCHANGED <<fs, pc, cur, ret, fill_next>>

\* the file behind a path is written, replaced or deleted
FileChanged(p, st) ==
    /\ pc = "idle"
    /\ err = ""
    /\ st # fs[p]
    /\ fs' = [fs EXCEPT ![p] = st]
    /\ last_get' = NoGet
    /\ run' = << >>
    /\ UNCHANGED <<icon_cache, ref_count, pixbuf_ref, mtime, age, status,
                   next, prev, recently_used_count, sweep_timer,
                   pending_timeouts, pc, cur, ret, err, fill_next>>

\* The pixbuf the loader hands to async_thumbnail_load_func: one with an
\* alpha channel, one without, or NULL, for which gdk_pixbuf_get_has_alpha
\* logs a critical and returns FALSE.  The thumbnails that arrive in Spec
\* and SpecOps have alpha; SpecThumb has all three.
Pixbufs == {"alpha", "no_alpha", "null"}
gdk_pixbuf_get_has_alpha(pixbuf) == pixbuf = "alpha"

\* What nautilus_thumbnail_frame_image (&pixbuf) may leave in pixbuf: a
\* framed image, with an alpha channel or without, or what it was given
\* when there is no frame image to put around it; NULL only if it was
\* given NULL.
frame_outcomes(pixbuf) ==
    IF pixbuf = "null" THEN Pixbufs ELSE {"alpha", "no_alpha"}

\* Lines 387-393: the pixbuf that goes to cache_icon_new.  One with alpha
\* is the loader's; anything else is handed to
\* nautilus_thumbnail_frame_image, and framed is what comes back.
pixbuf_for_icon(pixbuf, framed) ==
    IF gdk_pixbuf_get_has_alpha(pixbuf) THEN pixbuf ELSE framed

\* Lines 387-400: the references that async_thumbnail_load_func leaves on
\* the pixbuf of the new icon beside the icon's own.  A pixbuf with alpha
\* is the loader's: none.  Otherwise the function owns one reference to
\* what nautilus_thumbnail_frame_image handed back, and drops it only if
\* the test of line 398, made on that image, finds no alpha.
references_kept(pixbuf, framed) ==
    LET owned == IF gdk_pixbuf_get_has_alpha(pixbuf) THEN 0 ELSE 1
    IN IF ~gdk_pixbuf_get_has_alpha(pixbuf_for_icon(pixbuf, framed))
       THEN owned - 1
       ELSE owned

\* cache_icon_new (pixbuf, NULL, scale_x, scale_y) of line 395 with the
\* references of lines 387-400 counted in.  Given NULL, g_object_ref and
\* g_object_unref log a critical and return, and the icon is made with
\* pixbuf NULL.
thumbnail_icon_new(H, mt, hint, pixbuf, framed) ==
    LET N == cache_icon_new(H, mt, hint)
    IN [N EXCEPT !.pixbuf_ref[new_slot(H, hint)] =
            IF pixbuf_for_icon(pixbuf, framed) = "null" THEN NULL
            ELSE @ + references_kept(pixbuf, framed)]

\* mutant: a thumbnail that arrives for a key that is in the table is dropped
async_thumbnail_load_keeps_first(H, path, pixbuf, framed, modifier, nominal_size, force_nominal) ==
    IF ~stat_is_regular(path) THEN H
    ELSE LET k == CacheKey(path, modifier, nominal_size, force_nominal)
             N == thumbnail_icon_new(H, fs[path.s].mtime, slot_hint(k),
                                     pixbuf, framed)
         IN IF stored_key(H, k) # {}
            THEN cache_icon_unref(N, new_slot(H, slot_hint(k)))
            ELSE hash_table_insert(N, k, new_slot(H, slot_hint(k)))

\* mutant: the arrival does not look whether the file is still there
async_thumbnail_load_no_stat(H, path, pixbuf, framed, modifier, nominal_size, force_nominal) ==
    LET k == CacheKey(path, modifier, nominal_size, force_nominal)
        N == thumbnail_icon_new(H, fs[path.s].mtime, slot_hint(k),
                                pixbuf, framed)
    IN hash_table_insert(N, k, new_slot(H, slot_hint(k)))

\* mutant: the new icon does not get the mtime of the file
async_thumbnail_load_no_mtime(H, path, pixbuf, framed, modifier, nominal_size, force_nominal) ==
    IF ~stat_is_regular(path) THEN H
    ELSE LET k == CacheKey(path, modifier, nominal_size, force_nominal)
             N == thumbnail_icon_new(H, 0, slot_hint(k),
                                     pixbuf, framed)
         IN hash_table_insert(N, k, new_slot(H, slot_hint(k)))

\* async_thumbnail_load_func: a thumbnail that was loaded in the background
\* arrives.  If the path is still a regular file a new icon with the file's
\* mtime goes into the table under the path key; it is not put in the
\* recently used list and no sweep is scheduled.  framed is what
\* nautilus_thumbnail_frame_image made of a pixbuf without alpha.
async_thumbnail_load_func(H, path, pixbuf, framed, modifier, nominal_size, force_nominal) ==
    IF ~stat_is_regular(path) THEN H
    ELSE LET k == CacheKey(path, modifier, nominal_size, force_nominal)
             N == thumbnail_icon_new(H, fs[path.s].mtime, slot_hint(k),
                                     pixbuf, framed)
         IN hash_table_insert(N, k, new_slot(H, slot_hint(k)))

AsyncThumbnailLoad(path, pixbuf, framed, modifier, nominal_size, force_nominal) ==
    /\ pc = "idle"
    /\ err = ""
    /\ free_slots(Heap) # {}
    /\ SetHeap(async_thumbnail_load_func(Heap, path, pixbuf, framed,
                                         modifier, nominal_size,
                                         force_nominal))
    /\ last_get' = NoGet
    /\ run' = << >>
    /\ UNCHANGED <<fs, pc, cur, ret, fill_next>>

\* ---------------------------------------------------------------- init
\* nautilus_icon_factory_instance_init: empty table, empty list, the
\* fallback icon made with cache_icon_new
NoOp == [op |-> "none", key |-> NoKey, result |-> FALSE]
NoArrival == [notified |-> FALSE, mapped |-> FALSE]
NoResult == [fn |-> "none", size |-> 0]
NoHash == [crash |-> FALSE, h |-> 0]
NoCmp == [done |-> FALSE, equal |-> FALSE, hash_a |-> NoHash, hash_b |-> NoHash]

\* ------------------------------------------------ navigation window
\* The back and forward lists of a navigation window.  A location is a
\* uri, one of NumLocations; a bookmark is made from a location and tells
\* its uri, and NULL is no location.
NumLocations == 2
Locations == 1..NumLocations

\* how many bookmarks the back list may hold when a change that adds one
\* to it begins
MaxHistory == 2

\* the views there are to show a location with: a view is told by its id,
\* and create_content_view reuses the content view when the ids agree
NumViews == 2
ViewIds == 1..NumViews

\* "file:///", the location that can't be deleted
ROOT_URI == 1

\* no bookmark: the NULL pointer, for which nautilus_bookmark_get_uri
\* returns NULL
NoBookmark == [uri |-> NULL]
nautilus_bookmark_new(location) == [uri |-> location]
nautilus_bookmark_get_uri(bookmark) == bookmark.uri
gnome_vfs_uris_match(a, b) == a # NULL /\ b # NULL /\ a = b

g_list_prepend(list, data) == <<data>> \o list
g_list_nth_data(list, n) ==
    IF n + 1 <= Len(list) THEN list[n + 1] ELSE NoBookmark

\* the first element that holds the data is taken out
g_list_remove(list, data) ==
    IF \A i \in 1..Len(list) : list[i] # data THEN list
    ELSE LET at == CHOOSE i \in 1..Len(list) :
                       /\ list[i] = data
                       /\ \A j \in 1..(i - 1) : list[j] # data
         IN SubSeq(list, 1, at - 1) \o SubSeq(list, at + 1, Len(list))

\* the window before it has shown anything
NewWindow ==
    [location |-> NULL,
     current_location_bookmark |-> NoBookmark,
     last_location_bookmark |-> NoBookmark,
     back_list |-> << >>,
     forward_list |-> << >>,
     pending_location |-> NULL,
     location_change_type |-> "standard",
     location_change_distance |-> 0,
     determine_view_file |-> FALSE,
     content_view |-> NULL,
     new_content_view |-> NULL,
     viewed_file_monitored |-> FALSE,
     viewed_file_seen |-> FALSE,
     viewed_file_in_trash |-> FALSE,
     finalized |-> FALSE,
     warning |-> FALSE,
     failed |-> ""]

NoTrip ==
    [stage |-> 0, distance |-> 0, location |-> NULL,
     back_list |-> << >>, forward_list |-> << >>]

\* the stages of a round trip: 1 the step just taken went back, 3 it went
\* back and the steps since have left the history and the location alone,
\* 2 the step just taken went forward by the same distance
trip_after(trip) ==
    IF trip.stage = 1 THEN [trip EXCEPT !.stage = 3]
    ELSE IF trip.stage = 2 THEN NoTrip
    ELSE trip

\* set_displayed_location: when the location is not the one of the
\* current bookmark, the current bookmark becomes the last one and a new
\* one is made; otherwise both bookmarks stay
set_displayed_location(W, location) ==
    LET recreate ==
            IF W.current_location_bookmark = NoBookmark \/ location = NULL
            THEN TRUE
            ELSE ~gnome_vfs_uris_match(
                      nautilus_bookmark_get_uri(W.current_location_bookmark),
                      location)
    IN IF recreate
       THEN [W EXCEPT
                !.last_location_bookmark = W.current_location_bookmark,
                !.current_location_bookmark =
                    IF location = NULL THEN NoBookmark
                    ELSE nautilus_bookmark_new(location)]
       ELSE W

\* g_warning ("bookmark uri is %s, but expected %s")
check_bookmark_location_matches(W, bookmark, uri) ==
    IF ~gnome_vfs_uris_match(uri, nautilus_bookmark_get_uri(bookmark))
    THEN [W EXCEPT !.warning = TRUE]
    ELSE W

check_last_bookmark_location_matches_window(W) ==
    check_bookmark_location_matches(W, W.last_location_bookmark, W.location)

\* the loop of handle_go_back and handle_go_forward: the head of one list
\* is removed from it and prepended to the other, dist times
RECURSIVE move_extra_links(_, _, _)
move_extra_links(from, to, dist) ==
    IF dist = 0 THEN [from |-> from, to |-> to]
    ELSE LET bookmark == from[1]
         IN move_extra_links(g_list_remove(from, bookmark),
                             g_list_prepend(to, bookmark), dist - 1)

\* handle_go_back: the list must be longer than the distance; the bookmark
\* at the distance is compared with the new location (a warning if they
\* differ); the window must have a location; then the last location
\* bookmark goes to the forward list, then location_change_distance
\* bookmarks from the back list, and the next bookmark of the back list
\* falls out
handle_go_back(W, location) ==
    IF ~(Len(W.back_list) > W.location_change_distance)
    THEN [W EXCEPT !.failed = "assert_back_list_length"]
    ELSE LET C == check_bookmark_location_matches(
                      W, g_list_nth_data(W.back_list,
                                         W.location_change_distance),
                      location)
             L == check_last_bookmark_location_matches_window(C)
             M == move_extra_links(
                      W.back_list,
                      g_list_prepend(W.forward_list,
                                     W.last_location_bookmark),
                      W.location_change_distance)
         IN IF C.location = NULL
            THEN [C EXCEPT !.failed = "assert_location"]
            ELSE [L EXCEPT !.forward_list = M.to,
                           !.back_list = Tail(M.from)]

\* handle_go_forward: the same with the two lists exchanged
handle_go_forward(W, location) ==
    IF ~(Len(W.forward_list) > W.location_change_distance)
    THEN [W EXCEPT !.failed = "assert_forward_list_length"]
    ELSE LET C == check_bookmark_location_matches(
                      W, g_list_nth_data(W.forward_list,
                                         W.location_change_distance),
                      location)
             L == check_last_bookmark_location_matches_window(C)
             M == move_extra_links(
                      W.forward_list,
                      g_list_prepend(W.back_list, W.last_location_bookmark),
                      W.location_change_distance)
         IN IF C.location = NULL
            THEN [C EXCEPT !.failed = "assert_location"]
            ELSE [L EXCEPT !.back_list = M.to,
                           !.forward_list = Tail(M.from)]

\* handle_go_elsewhere: the forward list is cleared and, unless the window
\* has no location or returns to the same uri, the last location bookmark
\* goes to the back list
handle_go_elsewhere(W, location) ==
    LET F == [W EXCEPT !.forward_list = << >>]
    IN IF F.location # NULL /\ ~gnome_vfs_uris_match(F.location, location)
       THEN LET L == check_last_bookmark_location_matches_window(F)
            IN [L EXCEPT !.back_list =
                    g_list_prepend(@, L.last_location_bookmark)]
       ELSE F

update_history(W, type, new_location) ==
    CASE type \in {"standard", "fallback"} ->
             handle_go_elsewhere(W, new_location)
      [] type = "back" -> handle_go_back(W, new_location)
      [] type = "forward" -> handle_go_forward(W, new_location)
      [] OTHER -> W

\* cancel_viewed_file_changed_callback: the "changed" handler of the
\* viewed file is disconnected
cancel_viewed_file_changed_callback(W) ==
    [W EXCEPT !.viewed_file_monitored = FALSE]

\* update_for_new_location: the pending location is displayed, the history
\* updated for the type of the change, the location set and the file of
\* the location watched from now on; confirmed and in_trash are what
\* nautilus_file_is_not_yet_confirmed (negated) and nautilus_file_is_in_trash
\* tell of it
update_for_new_location(W, confirmed, in_trash) ==
    LET new_location == W.pending_location
        P == [W EXCEPT !.pending_location = NULL]
        D == set_displayed_location(P, new_location)
        U == update_history(D, D.location_change_type, new_location)
    IN IF U.failed # "" THEN U
       ELSE [U EXCEPT !.location = new_location,
                      !.viewed_file_monitored = TRUE,
                      !.viewed_file_seen = confirmed,
                      !.viewed_file_in_trash = in_trash]

\* free_location_change: no location is pending, the file information asked
\* for is not waited for any more, the view that was to come is dropped
free_location_change(W) ==
    [W EXCEPT !.pending_location = NULL,
              !.determine_view_file = FALSE,
              !.new_content_view = NULL]

end_location_change(W) == free_location_change(W)

\* cancel_location_change: the content view is told to load the location
\* shown again, which changes nothing here, and the change ends
cancel_location_change(W) == end_location_change(W)

\* begin_location_change: the location must not be NULL and only a change
\* back or forward has a distance; a change that was pending is given up,
\* the new one is pending, the file information for the choice of a view
\* is asked for and the viewed file is not watched any more
begin_location_change(W, location, type, dist) ==
    IF location = NULL
    THEN [W EXCEPT !.failed = "assert_begin_location"]
    ELSE IF ~(type = "back" \/ type = "forward" \/ dist = 0)
    THEN [W EXCEPT !.failed = "assert_begin_distance"]
    ELSE [cancel_viewed_file_changed_callback(end_location_change(W)) EXCEPT
              !.pending_location = location,
              !.location_change_type = type,
              !.location_change_distance = dist,
              !.determine_view_file = TRUE]

\* nautilus_window_open_location_full for the window itself: nothing when
\* the location is the one the window shows, otherwise a standard change
\* begins
nautilus_window_open_location_full(W, location) ==
    IF W.location = location THEN W
    ELSE begin_location_change(W, location, "standard", 0)

\* nautilus_window_go_to (window, uri) and nautilus_window_go_home (window),
\* as the callbacks call them: the location is opened in the window
nautilus_window_go_to(W, uri) == nautilus_window_open_location_full(W, uri)

\* nautilus_window_reload: nothing for a window without a location,
\* otherwise a change of type reload to the location shown begins
nautilus_window_reload(W) ==
    IF W.location = NULL THEN W
    ELSE begin_location_change(W, W.location, "reload", 0)

\* nautilus_navigation_window_back_or_forward: nothing for an empty list;
\* a dist off the end of the list is the end of the list
nautilus_navigation_window_back_or_forward(W, back, dist) ==
    LET list == IF back THEN W.back_list ELSE W.forward_list
        len == Len(list)
        d == IF dist >= len THEN len - 1 ELSE dist
    IN IF len = 0 THEN W
       ELSE begin_location_change(
                W, nautilus_bookmark_get_uri(g_list_nth_data(list, d)),
                IF back THEN "back" ELSE "forward", d)

\* nautilus_window_manage_views_finalize, in the finalize of the window
nautilus_window_manage_views_finalize(W) ==
    [cancel_viewed_file_changed_callback(free_location_change(W)) EXCEPT
         !.finalized = TRUE]

\* gtk_object_destroy (window), nautilus_window_close (window): the window
\* goes away, and with it what nautilus_window_manage_views_finalize frees
gtk_object_destroy(W) == nautilus_window_manage_views_finalize(W)

\* create_content_view: the view with the id is the new content view, the
\* content view itself if that has the id; it is told to load the pending
\* location, or else the location shown; a window with neither goes home
create_content_view(W, view_id, home_uri) ==
    LET V == [W EXCEPT !.new_content_view = view_id]
    IN IF V.pending_location # NULL \/ V.location # NULL THEN V
       ELSE nautilus_window_go_to(V, home_uri)

\* got_file_info_for_view_selection_callback: the file information is
\* there.  view_id is the view chosen for the pending location, NULL if
\* none can show it.  With a view the change goes on in
\* create_content_view.  Without one, a window that is on screen ends the
\* change and watches the file of its location again, if it has a
\* location; a window that never was on screen
\* is destroyed, unless it is the only one: that one goes home, to "file:///"
\* if home is what it could not show, and is destroyed if "file:///" is.
got_file_info_for_view_selection_callback(W, view_id, visible, only_window, home_uri) ==
    LET D == [W EXCEPT !.determine_view_file = FALSE]
        location == D.pending_location
    IN IF view_id # NULL THEN create_content_view(D, view_id, home_uri)
       ELSE IF visible
       THEN [end_location_change(D) EXCEPT
                 !.viewed_file_monitored = (D.location # NULL)]
       ELSE IF ~only_window THEN gtk_object_destroy(D)
       ELSE IF gnome_vfs_uris_match(location, ROOT_URI)
       THEN gtk_object_destroy(D)
       ELSE IF ~gnome_vfs_uris_match(home_uri, location)
       THEN nautilus_window_go_to(D, home_uri)
       ELSE nautilus_window_go_to(D, ROOT_URI)

\* The view a report comes from: the content view, the view that is to
\* become the content view (the same object when create_content_view
\* reused it), or a view the window has switched from.
Views == {"content_view", "new_content_view", "old_view"}

is_new_content_view(W, view) ==
    /\ W.new_content_view # NULL
    /\ \/ view = "new_content_view"
       \/ view = "content_view" /\ W.content_view = W.new_content_view

is_content_view(W, view) ==
    /\ W.content_view # NULL
    /\ \/ view = "content_view"
       \/ view = "new_content_view" /\ W.content_view = W.new_content_view

\* location_has_really_changed: the new content view is the content view
\* from now on, a pending location becomes the location of the window,
\* and the change is over
location_has_really_changed(W, confirmed, in_trash) ==
    LET S == IF W.new_content_view # NULL
             THEN [W EXCEPT !.content_view = W.new_content_view,
                            !.new_content_view = NULL]
             ELSE W
        U == IF S.pending_location # NULL
             THEN update_for_new_location(S, confirmed, in_trash)
             ELSE S
    IN IF U.failed # "" THEN U ELSE free_location_change(U)

\* nautilus_window_report_load_underway: only a report of the new content
\* view changes the window
nautilus_window_report_load_underway(W, view, confirmed, in_trash) ==
    IF is_new_content_view(W, view)
    THEN location_has_really_changed(W, confirmed, in_trash)
    ELSE W

\* nautilus_window_report_load_complete: only a report of the content view
\* ends the change
nautilus_window_report_load_complete(W, view) ==
    IF is_content_view(W, view) THEN end_location_change(W) ELSE W

\* nautilus_window_get_content_view_id: NULL for a window without a
\* content view
nautilus_window_get_content_view_id(W) == W.content_view

\* nautilus_view_factory_lookup: the information registered for the view
\* id; there is none for NULL
NoViewInfo == [id |-> NULL]
nautilus_view_factory_lookup(id) ==
    IF id = NULL THEN NoViewInfo ELSE [id |-> id]

\* nautilus_window_get_view_error_label reads info->error_label of the
\* content view's id: without a content view that is a read through NULL
nautilus_window_get_view_error_label(W) ==
    IF nautilus_view_factory_lookup(nautilus_window_get_content_view_id(W))
           = NoViewInfo
    THEN [W EXCEPT !.failed = "null_dereference"]
    ELSE W

\* nautilus_window_get_view_startup_error_label reads
\* info->startup_error_label the same way
nautilus_window_get_view_startup_error_label(W) ==
    IF nautilus_view_factory_lookup(nautilus_window_get_content_view_id(W))
           = NoViewInfo
    THEN [W EXCEPT !.failed = "null_dereference"]
    ELSE W

\* nautilus_window_report_view_failed: the content view is taken out of
\* the window and the failure is reported with the startup error label of
\* the content view, which is gone by then; for another view the failure
\* is reported with the error label of the content view and the pending
\* location is tried again as a fallback, once; the change that was going
\* on is cancelled; a window that never was on screen is closed when the
\* fallback fails too
nautilus_window_report_view_failed(W, view, visible) ==
    LET current == is_content_view(W, view)
        fallback_load_location ==
            IF ~current /\ W.location_change_type # "fallback"
            THEN W.pending_location
            ELSE NULL
        do_close_window ==
            ~current /\ W.location_change_type = "fallback" /\ ~visible
        R == IF current
             THEN nautilus_window_get_view_startup_error_label(
                      [W EXCEPT !.content_view = NULL])
             ELSE IF W.location_change_type # "fallback"
             THEN nautilus_window_get_view_error_label(W)
             ELSE W
        C == cancel_location_change(R)
        B == IF fallback_load_location # NULL
             THEN begin_location_change(C, fallback_load_location,
                                        "fallback", 0)
             ELSE C
    IN IF R.failed # "" THEN R
       ELSE IF do_close_window THEN gtk_object_destroy(B)
       ELSE B

\* nautilus_window_stop_loading
nautilus_window_stop_loading(W) == cancel_location_change(W)

\* nautilus_window_set_content_view: nothing for a window without a
\* location or if the content view has the id; otherwise the change that
\* was going on ends and the location shown is loaded in the view with
\* the id, as a reload
nautilus_window_set_content_view(W, id, home_uri) ==
    IF W.location = NULL THEN W
    ELSE IF W.content_view # NULL /\ W.content_view = id THEN W
    ELSE create_content_view(
             [end_location_change(W) EXCEPT !.location_change_type = "reload"],
             id, home_uri)

\* viewed_file_changed_callback: the file of the location shown has
\* changed.  If it is gone, or has just gone to the trash, and was ever
\* seen, the change that was going on ends and the window goes to
\* go_to_uri, the nearest parent that exists, or home if there is none.
\* Otherwise new_location is the uri of the file, and the location of
\* the window if the file was renamed; the bookmarks are left alone.
viewed_file_changed_callback(W, confirmed, gone, is_in_trash, go_to_uri, home_uri, new_location) ==
    LET S == [W EXCEPT !.viewed_file_seen = @ \/ confirmed,
                       !.viewed_file_in_trash = is_in_trash]
    IN IF gone \/ (is_in_trash /\ ~W.viewed_file_in_trash)
       THEN IF S.viewed_file_seen
            THEN nautilus_window_go_to(
                     end_location_change(S),
                     IF go_to_uri # NULL THEN go_to_uri ELSE home_uri)
            ELSE S
       ELSE IF new_location # S.location
       THEN [S EXCEPT !.location = new_location]
       ELSE S

InitFactory(n_slots, files, hashes) ==
    /\ icon_cache = EmptyCache
    /\ ref_count = [i \in 1..n_slots |-> IF i = fallback_icon THEN 1 ELSE 0]
    /\ pixbuf_ref = [i \in 1..n_slots |-> IF i = fallback_icon THEN 1 ELSE 0]
    /\ mtime = [i \in 1..n_slots |-> 0]
    /\ age = [i \in 1..n_slots |-> 0]
    /\ status = [i \in 1..n_slots |->
                    IF i = fallback_icon THEN "live" ELSE "unalloc"]
    /\ next = [n \in 0..n_slots |-> IF n = HEAD THEN HEAD ELSE NULL]
    /\ prev = [n \in 0..n_slots |-> IF n = HEAD THEN HEAD ELSE NULL]
    /\ recently_used_count = 0
    /\ sweep_timer = 0
    /\ pending_timeouts = 0
    /\ fs \in files
    /\ pc = "idle"
    /\ cur = NoCall
    /\ ret = NULL
    /\ err = ""
    /\ last_get = NoGet
    /\ run = << >>
    /\ fill_next = 1
    /\ glib_djb \in hashes
    /\ last_op = NoOp
    /\ async_thumbnail_load_handles = << >>
    /\ is_thumbnailing = FALSE
    /\ file_changed = NoArrival
    /\ cancelled = << >>
    /\ thumbnail_delivered = {}
    /\ window = NewWindow
    /\ round_trip = NoTrip

\* no size function has been called
NoSizes ==
    /\ size_arg = 0
    /\ size_result = NoResult
    /\ zoom_sizes = << >>

InitHeap(n_slots, files, hashes) ==
    /\ InitFactory(n_slots, files, hashes)
    /\ key_a = NoKey
    /\ key_b = NoKey
    /\ key_cmp = NoCmp
    /\ NoSizes

\* No two keys of this universe differ in a null against an empty modifier
\* only, so the two versions of g_str_hash lead to the same tables here.
Init == InitHeap(MaxIcons, [Paths -> FileStates], {FALSE})

\* ------------------------------------------------- the small universe
GetKeys ==
    {CacheKey(NullStr, NullStr, 48, 0),
     CacheKey(Str(s_empty), NullStr, 48, 0),
     CacheKey(Str(s_folder), NullStr, 48, 0),
     CacheKey(Str(s_folder), Str(s_open), 48, 0),
     CacheKey(Str(s_nx), Str(s_open), 48, 0),
     CacheKey(Str(s_path_a), NullStr, 48, 0)}

\* the steps of the small universe keep no record of the last call
Untracked == UNCHANGED <<aside, last_op>>

Next ==
    \/ \E k \in GetKeys : GetIcon(k, FALSE, fill_next) /\ Untracked
    \/ \E wd \in BOOLEAN : ReturnPixbuf(wd, FALSE, {}) /\ Untracked
    \/ SweepTimeout /\ Untracked
    \/ \E b \in BOOLEAN : Clear(b) /\ Untracked
    \/ \E k \in GetKeys, g \in {0, 1, 2} :
           RemoveFromCache(k.name, k.modifier, k.nominal_size, g) /\ Untracked
    \/ \E p \in Paths, st \in FileStates : FileChanged(p, st) /\ Untracked
    \/ \E p \in Paths :
           AsyncThumbnailLoad(Str(p), "alpha", "alpha", NullStr, 48, 0)
               /\ Untracked

Spec == Init /\ [][Next]_vars

\* ------------------------------------------------ the fill scenario
\* A caller asks for the "folder" icon at sizes 1, 2, 3, ... in turn, comes
\* back to the first size now and then and keeps its pixbuf, and asks for
\* an icon the theme does not have at two sizes before it has asked for
\* the folder icon at size NxUntil.
FillKey(n) == CacheKey(Str(s_folder), NullStr, n, 0)
RegetSizes == {1}
HoldableLRU == {FillKey(n) : n \in RegetSizes}
NxKeys == {CacheKey(Str(s_nx), NullStr, n, 0) : n \in {1, 2}}

NoFile == [isreg |-> FALSE, mtime |-> 0, ok |-> FALSE]
NxUntil == 2

\* (all modifiers of this scenario are null)
InitLRU == InitHeap(MaxIconsLRU, {[p \in Paths |-> NoFile]}, {FALSE})

NextLRU ==
    \/ \E n \in 1..NumFillKeys :
           n = fill_next /\ GetIcon(FillKey(n), TRUE, n + 1) /\ Untracked
    \/ \E n \in RegetSizes :
           n < fill_next /\ GetIcon(FillKey(n), TRUE, fill_next) /\ Untracked
    \/ \E k \in NxKeys :
           fill_next <= NxUntil /\ GetIcon(k, TRUE, fill_next) /\ Untracked
    \/ \E keep \in BOOLEAN : ReturnPixbuf(TRUE, keep, HoldableLRU) /\ Untracked
    \/ \E i \in DOMAIN status : UnrefPixbuf(i) /\ Untracked
    \/ SweepTimeout /\ Untracked

SpecLRU == InitLRU /\ [][NextLRU]_vars

\* ------------------------------------------------ the recorded calls
\* The same calls on four keys, two of which differ only in a null against
\* an empty modifier, under either version of g_str_hash; last_op records
\* each call and what it returned.  The file behind the path is either
\* missing or a loadable image.
GoodFile == [isreg |-> TRUE, mtime |-> 1, ok |-> TRUE]
OpsFileStates == {NoFile, GoodFile}
OpsKeys ==
    {CacheKey(Str(s_folder), NullStr, 48, 0),
     CacheKey(Str(s_folder), Str(s_empty), 48, 0),
     CacheKey(Str(s_nx), NullStr, 48, 0),
     CacheKey(Str(s_path_a), NullStr, 48, 0)}

\* whether get_icon_from_cache will take its cache-miss branch
get_misses(H, k) ==
    LET found == lookup_icon_from_cache(H, k)
    IN found = NULL \/ is_stale(H, k, found)

Op(op, key, result) == [op |-> op, key |-> key, result |-> result]

InitOps == InitHeap(MaxIcons + 1, [Paths -> OpsFileStates], BOOLEAN)

NextOps ==
    \/ \E k \in OpsKeys :
           /\ GetIcon(k, FALSE, fill_next)
           /\ last_op' = Op("get", k, get_misses(Heap, k))
           /\ UNCHANGED aside
    \/ \E wd \in BOOLEAN :
           ReturnPixbuf(wd, FALSE, {}) /\ UNCHANGED <<aside, last_op>>
    \/ /\ SweepTimeout
       /\ last_op' = Op("sweep", NoKey, FALSE)
       /\ UNCHANGED aside
    \/ \E b \in BOOLEAN :
           /\ Clear(b)
           /\ last_op' = Op("clear", NoKey, b)
           /\ UNCHANGED aside
    \/ \E k \in OpsKeys, g \in {0, 1} :
           /\ RemoveFromCache(k.name, k.modifier, k.nominal_size, g)
           /\ last_op' =
                  Op("remove", k,
                     nautilus_icon_factory_remove_from_cache(
                         Heap, k.name, k.modifier, k.nominal_size, g).ret)
           /\ UNCHANGED aside
    \/ \E p \in Paths, st \in OpsFileStates :
           /\ FileChanged(p, st)
           /\ last_op' = Op("file", NoKey, FALSE)
           /\ UNCHANGED aside
    \/ \E p \in Paths :
           /\ AsyncThumbnailLoad(Str(p), "alpha", "alpha", NullStr, 48, 0)
           /\ last_op' = Op("async", CacheKey(Str(p), NullStr, 48, 0),
                            stat_is_regular(Str(p)))
           /\ UNCHANGED aside

SpecOps == InitOps /\ [][NextOps]_vars

\* ------------------------------------------------ the key functions
\* cache_key_equal and cache_key_hash applied to two keys, as the table
\* applies them.  g_str_hash reads through the name, so a null name is a
\* crash there.
KeyNames == {NullStr, Str(s_empty), Str(s_folder), Str(s_nx)}
KeyModifiers == {NullStr, Str(s_empty), Str(s_open)}
KeySizes == {24, 48}
AllKeys ==
    {CacheKey(n, m, sz, f) :
         n \in KeyNames, m \in KeyModifiers, sz \in KeySizes, f \in {0, 1}}

hash_of(k, djb) ==
    IF k.name.null THEN [crash |-> TRUE, h |-> 0]
    ELSE [crash |-> FALSE, h |-> cache_key_hash(k, djb)]

InitKeys ==
    /\ InitFactory(MaxIcons, {[p \in Paths |-> NoFile]}, BOOLEAN)
    /\ key_a \in AllKeys
    /\ key_b \in AllKeys
    /\ key_cmp = NoCmp
    /\ NoSizes

CompareKeys ==
    /\ ~key_cmp.done
    /\ key_cmp' = [done |-> TRUE,
                   equal |-> cache_key_equal(key_a, key_b),
                   hash_a |-> hash_of(key_a, glib_djb),
                   hash_b |-> hash_of(key_b, glib_djb)]
    /\ UNCHANGED <<icon_cache, ref_count, pixbuf_ref, mtime, age, status,
                   next, prev, recently_used_count, sweep_timer,
                   pending_timeouts, fs, pc, cur,
                   ret, err, last_get, run, fill_next, glib_djb, last_op,
                   key_a, key_b, async_thumbnail_load_handles,
                   is_thumbnailing, file_changed, cancelled, sizes, navigation,
                   thumbnail_delivered>>

NextKeys == CompareKeys

SpecKeys == InitKeys /\ [][NextKeys]_vars

\* ------------------------------------------------ thumbnails
\* nautilus_icon_factory_get_pixbuf_for_file_with_icon on a thumbnail file
\* asked for at two sizes, the background loads it starts, and their
\* arrival in async_thumbnail_load_func.  The loads finish in any order.
\* requests pending at a time, and blocks of the heap
MaxHandles == 2
MaxIconsThumb == 4
ThumbPaths == {s_thumb_t}
ThumbSizes == {48, 96}
ThumbFileStates == {NoFile, GoodFile, [GoodFile EXCEPT !.mtime = 2]}
ThumbKeys == {CacheKey(Str(s_thumb_t), NullStr, sz, 0) : sz \in ThumbSizes}

\* strstr (icon, "/.thumbnails/") != NULL
is_thumbnail(icon) ==
    \E i \in 1..Len(icon.s) :
        /\ i + Len(s_thumbnails_dir) - 1 <= Len(icon.s)
        /\ SubSeq(icon.s, i, i + Len(s_thumbnails_dir) - 1) = s_thumbnails_dir

\* the AsnycThumbnailLoadFuncData of a request, with the path the loader
\* hands back to the callback
LoadData(k) ==
    [path |-> k.name, modifier |-> k.modifier,
     nominal_size |-> k.nominal_size, force_nominal |-> k.force_nominal]

\* mutant: the request is not put on the list
start_load_unlisted(handles, k) == handles

\* g_list_prepend (factory->async_thumbnail_load_handles,
\*                 nautilus_thumbnail_load_image_async (...))
start_load(handles, k) == <<LoadData(k)>> \o handles

\* the part of nautilus_icon_factory_get_pixbuf_for_file_with_icon before
\* the call of nautilus_icon_factory_get_pixbuf_for_icon: whether a load is
\* started, the list of handles and the icon name to go on with
get_pixbuf_for_file_with_icon(H, handles, k) ==
    IF is_thumbnail(k.name) /\ lookup_icon_from_cache(H, k) = NULL
    THEN [async |-> TRUE, handles |-> start_load(handles, k),
          icon |-> Str(ICON_NAME_THUMBNAIL_LOADING)]
    ELSE [async |-> FALSE, handles |-> handles, icon |-> k.name]

GetForFile(k) ==
    LET F == get_pixbuf_for_file_with_icon(Heap, async_thumbnail_load_handles, k)
    IN /\ F.async => Len(async_thumbnail_load_handles) < MaxHandles
       /\ GetIcon(CacheKey(F.icon, k.modifier, k.nominal_size,
                           k.force_nominal), FALSE, fill_next)
       /\ async_thumbnail_load_handles' = F.handles
       /\ is_thumbnailing' = (F.async \/ is_thumbnailing)
       /\ last_op' = Op("get_for_file", k, F.async)
       /\ UNCHANGED <<glib_djb, key_a, key_b, key_cmp, file_changed,
                      cancelled, sizes, navigation, thumbnail_delivered>>

\* nautilus_thumbnail_load_image_async calls the callback of a request once,
\* when its load is done, unless the request is cancelled first: the loads
\* still to call back are those the factory has on its list (positions)
callbacks_due(handles) == 1..Len(handles)

\* mutant: the first handle of the list is taken off, whichever load is done
remove_first_handle(handles, i) == Tail(handles)

\* g_list_remove (factory->async_thumbnail_load_handles, handle)
remove_handle(handles, i) ==
    SubSeq(handles, 1, i - 1) \o SubSeq(handles, i + 1, Len(handles))

\* the load behind the i-th handle is done and async_thumbnail_load_func
\* runs: the flag of the file is cleared and the handle taken off the list
\* first; nautilus_file_changed comes after g_hash_table_insert, and only
\* if the path could be stat'ed
ThumbnailLoaded(i, pixbuf, framed) ==
    LET d == async_thumbnail_load_handles[i]
        k == CacheKey(d.path, d.modifier, d.nominal_size, d.force_nominal)
        H == async_thumbnail_load_func(Heap, d.path, pixbuf,
                                       framed, d.modifier,
                                       d.nominal_size, d.force_nominal)
    IN /\ AsyncThumbnailLoad(d.path, pixbuf, framed, d.modifier,
                             d.nominal_size, d.force_nominal)
       /\ is_thumbnailing' = FALSE
       /\ async_thumbnail_load_handles' =
              remove_handle(async_thumbnail_load_handles, i)
       /\ file_changed' =
              [notified |-> stat_is_regular(d.path),
               mapped |-> /\ stat_is_regular(d.path)
                          /\ lookup_icon_from_cache(H, k) # NULL]
       /\ thumbnail_delivered' =
              IF stat_is_regular(d.path)
              THEN thumbnail_delivered \cup {k}
              ELSE thumbnail_delivered
       /\ last_op' = Op("loaded", k, stat_is_regular(d.path))
       /\ UNCHANGED <<glib_djb, key_a, key_b, key_cmp, cancelled, sizes, navigation>>

\* mutant: the list of handles is freed without cancelling the loads
finalize_without_cancel(H, handles) ==
    LET D == hash_table_remove_keys(H, DOMAIN H.icon_cache)
        A == IF D.ref_count[fallback_icon] # 1
             THEN Fail(D, "assert_finalize_fallback")
             ELSE cache_icon_unref(D, fallback_icon)
    IN [H |-> A, cancelled |-> << >>, handles |-> << >>]

\* nautilus_icon_factory_finalize: every handle on the list is cancelled
\* and the list freed, the table is destroyed (each value goes to
\* cache_icon_unref), and the fallback icon, which must be down to one
\* reference, is released.  The sweep timer is left as it is.
nautilus_icon_factory_finalize(H, handles) ==
    LET D == hash_table_remove_keys(H, DOMAIN H.icon_cache)
        A == IF D.ref_count[fallback_icon] # 1
             THEN Fail(D, "assert_finalize_fallback")
             ELSE cache_icon_unref(D, fallback_icon)
    IN [H |-> A, cancelled |-> handles, handles |-> << >>]

Finalize ==
    LET F == nautilus_icon_factory_finalize(Heap, async_thumbnail_load_handles)
    IN /\ pc = "idle"
       /\ err = ""
       /\ SetHeap(F.H)
       /\ cancelled' = cancelled \o F.cancelled
       /\ async_thumbnail_load_handles' = F.handles
       /\ pc' = "finalized"
       /\ last_op' = Op("finalize", NoKey, FALSE)
       /\ last_get' = NoGet
       /\ run' = << >>
       /\ UNCHANGED <<fs, cur, ret, fill_next, glib_djb, key_a, key_b, key_cmp,
                      is_thumbnailing, file_changed, sizes, navigation,
                      thumbnail_delivered>>

\* nautilus_icon_factory_sweep called with a factory that finalize has
\* freed.  The callback reads factory->icon_cache from freed memory: if the
\* memory still holds the NULL that finalize stored, the table walk returns
\* at once and the callback stores 0 into the freed sweep_timer field; if
\* the memory has been reused the walk goes through a wild pointer.  Either
\* way the source that fired is gone.
sweep_of_finalized_factory(H, memory_reused) ==
    LET S == [H EXCEPT !.pending_timeouts = @ - 1]
    IN IF memory_reused
       THEN Fail(S, "crash")
       ELSE Fail([S EXCEPT !.sweep_timer = 0], "use_after_free")

\* the sweep timer that finalize left armed fires
SweepTimeoutFinalized ==
    /\ pc = "finalized"
    /\ err = ""
    /\ pending_timeouts > 0
    /\ \E memory_reused \in BOOLEAN :
           SetHeap(sweep_of_finalized_factory(Heap, memory_reused))
    /\ last_op' = Op("sweep", NoKey, FALSE)
    /\ last_get' = NoGet
    /\ run' = << >>
    /\ UNCHANGED <<fs, pc, cur, ret, fill_next>>
    /\ UNCHANGED aside

InitThumb == InitHeap(MaxIconsThumb, [ThumbPaths -> ThumbFileStates], {FALSE})

NextThumb ==
    \/ \E k \in ThumbKeys : GetForFile(k)
    \/ \E wd \in BOOLEAN :
           ReturnPixbuf(wd, FALSE, {}) /\ UNCHANGED <<aside, last_op>>
    \/ \E i \in callbacks_due(async_thumbnail_load_handles),
          pixbuf \in Pixbufs :
           \E framed \in frame_outcomes(pixbuf) :
               ThumbnailLoaded(i, pixbuf, framed)
    \/ \E p \in ThumbPaths, st \in ThumbFileStates :
           /\ FileChanged(p, st)
           /\ last_op' = Op("file", NoKey, FALSE)
           /\ thumbnail_delivered' =
                  {k \in thumbnail_delivered : k.name.s # p}
           /\ UNCHANGED <<glib_djb, key_a, key_b, key_cmp,
                          async_thumbnail_load_handles, is_thumbnailing,
                          file_changed, cancelled, sizes, navigation>>
    \/ /\ SweepTimeout
       /\ last_op' = Op("sweep", NoKey, FALSE)
       /\ UNCHANGED aside
    \/ Finalize
    \/ SweepTimeoutFinalized

SpecThumb == InitThumb /\ [][NextThumb]_vars

\* ------------------------------------------------ icon sizes
\* The size functions.  NAUTILUS_ICON_SIZE_* and NAUTILUS_ZOOM_LEVEL_* come
\* from nautilus-icon-factory.h; their values are the ones
\* nautilus_self_check_icon_factory expects of
\* nautilus_get_icon_size_for_zoom_level (0) ... (6).
NAUTILUS_ICON_SIZE_SMALLEST == 16
NAUTILUS_ICON_SIZE_SMALLER == 24
NAUTILUS_ICON_SIZE_SMALL == 32
NAUTILUS_ICON_SIZE_STANDARD == 48
NAUTILUS_ICON_SIZE_LARGE == 72
NAUTILUS_ICON_SIZE_LARGER == 96
NAUTILUS_ICON_SIZE_LARGEST == 192
NAUTILUS_ZOOM_LEVEL_SMALLEST == 0
NAUTILUS_ZOOM_LEVEL_SMALLER == 1
NAUTILUS_ZOOM_LEVEL_SMALL == 2
NAUTILUS_ZOOM_LEVEL_STANDARD == 3
NAUTILUS_ZOOM_LEVEL_LARGE == 4
NAUTILUS_ZOOM_LEVEL_LARGER == 5
NAUTILUS_ZOOM_LEVEL_LARGEST == 6

\* the sizes tried: every one up to MaxSize, and the largest guint
MaxSize == 200
Sizes == 0..MaxSize \cup {GUINT_MAX}
\* the zoom levels tried: the seven of the enum and one that is none of them
ZoomLevels == NAUTILUS_ZOOM_LEVEL_SMALLEST..(NAUTILUS_ZOOM_LEVEL_LARGEST + 1)

\* mutant: the comparisons take the size itself for larger
get_larger_icon_size_not_strict(size) ==
    IF size <= NAUTILUS_ICON_SIZE_SMALLEST THEN NAUTILUS_ICON_SIZE_SMALLEST
    ELSE IF size <= NAUTILUS_ICON_SIZE_SMALLER THEN NAUTILUS_ICON_SIZE_SMALLER
    ELSE IF size <= NAUTILUS_ICON_SIZE_SMALL THEN NAUTILUS_ICON_SIZE_SMALL
    ELSE IF size <= NAUTILUS_ICON_SIZE_STANDARD THEN NAUTILUS_ICON_SIZE_STANDARD
    ELSE IF size <= NAUTILUS_ICON_SIZE_LARGE THEN NAUTILUS_ICON_SIZE_LARGE
    ELSE IF size <= NAUTILUS_ICON_SIZE_LARGER THEN NAUTILUS_ICON_SIZE_LARGER
    ELSE NAUTILUS_ICON_SIZE_LARGEST

nautilus_icon_factory_get_larger_icon_size(size) ==
    IF size < NAUTILUS_ICON_SIZE_SMALLEST THEN NAUTILUS_ICON_SIZE_SMALLEST
    ELSE IF size < NAUTILUS_ICON_SIZE_SMALLER THEN NAUTILUS_ICON_SIZE_SMALLER
    ELSE IF size < NAUTILUS_ICON_SIZE_SMALL THEN NAUTILUS_ICON_SIZE_SMALL
    ELSE IF size < NAUTILUS_ICON_SIZE_STANDARD THEN NAUTILUS_ICON_SIZE_STANDARD
    ELSE IF size < NAUTILUS_ICON_SIZE_LARGE THEN NAUTILUS_ICON_SIZE_LARGE
    ELSE IF size < NAUTILUS_ICON_SIZE_LARGER THEN NAUTILUS_ICON_SIZE_LARGER
    ELSE NAUTILUS_ICON_SIZE_LARGEST

\* mutant: the comparisons take the size itself for smaller
get_smaller_icon_size_not_strict(size) ==
    IF size >= NAUTILUS_ICON_SIZE_LARGEST THEN NAUTILUS_ICON_SIZE_LARGEST
    ELSE IF size >= NAUTILUS_ICON_SIZE_LARGER THEN NAUTILUS_ICON_SIZE_LARGER
    ELSE IF size >= NAUTILUS_ICON_SIZE_LARGE THEN NAUTILUS_ICON_SIZE_LARGE
    ELSE IF size >= NAUTILUS_ICON_SIZE_STANDARD THEN NAUTILUS_ICON_SIZE_STANDARD
    ELSE IF size >= NAUTILUS_ICON_SIZE_SMALL THEN NAUTILUS_ICON_SIZE_SMALL
    ELSE IF size >= NAUTILUS_ICON_SIZE_SMALLER THEN NAUTILUS_ICON_SIZE_SMALLER
    ELSE NAUTILUS_ICON_SIZE_SMALLEST

nautilus_icon_factory_get_smaller_icon_size(size) ==
    IF size > NAUTILUS_ICON_SIZE_LARGEST THEN NAUTILUS_ICON_SIZE_LARGEST
    ELSE IF size > NAUTILUS_ICON_SIZE_LARGER THEN NAUTILUS_ICON_SIZE_LARGER
    ELSE IF size > NAUTILUS_ICON_SIZE_LARGE THEN NAUTILUS_ICON_SIZE_LARGE
    ELSE IF size > NAUTILUS_ICON_SIZE_STANDARD THEN NAUTILUS_ICON_SIZE_STANDARD
    ELSE IF size > NAUTILUS_ICON_SIZE_SMALL THEN NAUTILUS_ICON_SIZE_SMALL
    ELSE IF size > NAUTILUS_ICON_SIZE_SMALLER THEN NAUTILUS_ICON_SIZE_SMALLER
    ELSE NAUTILUS_ICON_SIZE_SMALLEST

\* mutant: the case of the large zoom level is missing from the switch
get_icon_size_for_zoom_level_no_large(zoom_level) ==
    CASE zoom_level = NAUTILUS_ZOOM_LEVEL_SMALLEST -> NAUTILUS_ICON_SIZE_SMALLEST
      [] zoom_level = NAUTILUS_ZOOM_LEVEL_SMALLER -> NAUTILUS_ICON_SIZE_SMALLER
      [] zoom_level = NAUTILUS_ZOOM_LEVEL_SMALL -> NAUTILUS_ICON_SIZE_SMALL
      [] zoom_level = NAUTILUS_ZOOM_LEVEL_STANDARD -> NAUTILUS_ICON_SIZE_STANDARD
      [] zoom_level = NAUTILUS_ZOOM_LEVEL_LARGER -> NAUTILUS_ICON_SIZE_LARGER
      [] zoom_level = NAUTILUS_ZOOM_LEVEL_LARGEST -> NAUTILUS_ICON_SIZE_LARGEST
      [] OTHER -> NAUTILUS_ICON_SIZE_STANDARD

\* the switch, and g_return_val_if_reached (NAUTILUS_ICON_SIZE_STANDARD)
\* for a level that is none of the seven
nautilus_get_icon_size_for_zoom_level(zoom_level) ==
    CASE zoom_level = NAUTILUS_ZOOM_LEVEL_SMALLEST -> NAUTILUS_ICON_SIZE_SMALLEST
      [] zoom_level = NAUTILUS_ZOOM_LEVEL_SMALLER -> NAUTILUS_ICON_SIZE_SMALLER
      [] zoom_level = NAUTILUS_ZOOM_LEVEL_SMALL -> NAUTILUS_ICON_SIZE_SMALL
      [] zoom_level = NAUTILUS_ZOOM_LEVEL_STANDARD -> NAUTILUS_ICON_SIZE_STANDARD
      [] zoom_level = NAUTILUS_ZOOM_LEVEL_LARGE -> NAUTILUS_ICON_SIZE_LARGE
      [] zoom_level = NAUTILUS_ZOOM_LEVEL_LARGER -> NAUTILUS_ICON_SIZE_LARGER
      [] zoom_level = NAUTILUS_ZOOM_LEVEL_LARGEST -> NAUTILUS_ICON_SIZE_LARGEST
      [] OTHER -> NAUTILUS_ICON_SIZE_STANDARD

\* everything of the icon factory
cache_state ==
    <<icon_cache, ref_count, pixbuf_ref, mtime, age, status, next, prev,
      recently_used_count, sweep_timer, pending_timeouts, fs, pc, cur, ret,
      err, last_get, run, fill_next, glib_djb, last_op, key_a, key_b,
      key_cmp, async_thumbnail_load_handles, is_thumbnailing, file_changed,
      cancelled, thumbnail_delivered>>

\* what the size functions do not touch
factory_state == <<cache_state, navigation>>

InitSizes ==
    /\ InitFactory(MaxIcons, {[p \in Paths |-> NoFile]}, {FALSE})
    /\ key_a = NoKey
    /\ key_b = NoKey
    /\ key_cmp = NoCmp
    /\ size_arg \in Sizes
    /\ size_result = NoResult
    /\ zoom_sizes = << >>

LargerIconSize ==
    /\ size_result.fn # "larger"
    /\ size_result' =
           [fn |-> "larger",
            size |-> nautilus_icon_factory_get_larger_icon_size(size_arg)]
    /\ UNCHANGED <<factory_state, size_arg, zoom_sizes>>

SmallerIconSize ==
    /\ size_result.fn # "smaller"
    /\ size_result' =
           [fn |-> "smaller",
            size |-> nautilus_icon_factory_get_smaller_icon_size(size_arg)]
    /\ UNCHANGED <<factory_state, size_arg, zoom_sizes>>

IconSizeForZoomLevel(zoom_level) ==
    /\ zoom_level \notin DOMAIN zoom_sizes
    /\ zoom_sizes' =
           [z \in DOMAIN zoom_sizes \cup {zoom_level} |->
               IF z = zoom_level
               THEN nautilus_get_icon_size_for_zoom_level(zoom_level)
               ELSE zoom_sizes[z]]
    /\ UNCHANGED <<factory_state, size_arg, size_result>>

NextSizes ==
    \/ LargerIconSize
    \/ SmallerIconSize
    \/ \E z \in ZoomLevels : IconSizeForZoomLevel(z)

SpecSizes == InitSizes /\ [][NextSizes]_vars

\* ------------------------------------------------ navigation steps
\* The calls and callbacks of one navigation window.  A change that may
\* add a bookmark to the back list begins while the list is shorter than
\* MaxHistory.
HistoryBounded(W) ==
    (W.pending_location # NULL
         /\ W.location_change_type \in {"standard", "fallback"})
        => Len(W.back_list) < MaxHistory

\* the window is there and no assertion has ended the program
Usable == window.failed = "" /\ ~window.finalized

\* a call that leaves the history and the location as they are
WindowStep(W) ==
    /\ HistoryBounded(W)
    /\ window' = W
    /\ round_trip' = trip_after(round_trip)
    /\ UNCHANGED <<cache_state, sizes>>

\* nautilus_window_open_location
OpenLocation(location) ==
    /\ Usable
    /\ WindowStep(nautilus_window_open_location_full(window, location))

\* the Reload button
Reload ==
    /\ Usable
    /\ WindowStep(nautilus_window_reload(window))

\* the Back or Forward button, or an item of its menu
BackOrForward(back, dist) ==
    /\ Usable
    /\ WindowStep(nautilus_navigation_window_back_or_forward(
                      window, back, dist))

\* the file information asked for by begin_location_change is there
GotFileInfo(view_id, visible, only_window, home_uri) ==
    /\ Usable
    /\ window.determine_view_file
    /\ WindowStep(got_file_info_for_view_selection_callback(
                      window, view_id, visible, only_window, home_uri))

\* a view reports that it is loading: for the new content view of a
\* pending location, the location has changed
ReportLoadUnderway(view, confirmed, in_trash) ==
    /\ Usable
    /\ view = "content_view" => window.content_view # NULL
    /\ view = "new_content_view" => window.new_content_view # NULL
    /\ window' = nautilus_window_report_load_underway(
                      window, view, confirmed, in_trash)
    /\ round_trip' =
           IF ~is_new_content_view(window, view)
                  \/ window.pending_location = NULL
           THEN trip_after(round_trip)
           ELSE IF window.location_change_type = "back"
           THEN [stage |-> 1,
                 distance |-> window.location_change_distance,
                 location |-> window.location,
                 back_list |-> window.back_list,
                 forward_list |-> window.forward_list]
           ELSE IF /\ window.location_change_type = "forward"
                   /\ round_trip.stage \in {1, 3}
                   /\ window.location_change_distance = round_trip.distance
           THEN [round_trip EXCEPT !.stage = 2]
           ELSE NoTrip
    /\ UNCHANGED <<cache_state, sizes>>

\* a view reports that it has loaded its location
ReportLoadComplete(view) ==
    /\ Usable
    /\ view = "content_view" => window.content_view # NULL
    /\ view = "new_content_view" => window.new_content_view # NULL
    /\ WindowStep(nautilus_window_report_load_complete(window, view))

\* a view reports that it has failed
ReportViewFailed(view, visible) ==
    /\ Usable
    /\ view = "content_view" => window.content_view # NULL
    /\ view = "new_content_view" => window.new_content_view # NULL
    /\ WindowStep(nautilus_window_report_view_failed(window, view, visible))

\* the Stop button
StopLoading ==
    /\ Usable
    /\ WindowStep(nautilus_window_stop_loading(window))

\* an item of the View menu
SetContentView(id, home_uri) ==
    /\ Usable
    /\ WindowStep(nautilus_window_set_content_view(window, id, home_uri))

\* the "changed" signal of the viewed file, while the window watches it;
\* a rename changes the location under the round trip
ViewedFileChanged(confirmed, gone, is_in_trash, go_to_uri, home_uri, new_location) ==
    /\ Usable
    /\ window.viewed_file_monitored
    /\ window' = viewed_file_changed_callback(
                      window, confirmed, gone, is_in_trash, go_to_uri,
                      home_uri, new_location)
    /\ HistoryBounded(window')
    /\ round_trip' = IF window'.location # window.location THEN NoTrip
                     ELSE trip_after(round_trip)
    /\ UNCHANGED <<cache_state, sizes>>

\* the window is finalized
ManageViewsFinalize ==
    /\ Usable
    /\ WindowStep(nautilus_window_manage_views_finalize(window))

InitNav ==
    /\ InitFactory(MaxIcons, {[p \in Paths |-> NoFile]}, {FALSE})
    /\ key_a = NoKey
    /\ key_b = NoKey
    /\ key_cmp = NoCmp
    /\ NoSizes

NextNav ==
    \/ \E location \in Locations : OpenLocation(location)
    \/ \E back \in BOOLEAN, dist \in 0..MaxHistory :
           BackOrForward(back, dist)
    \/ Reload
    \/ \E view_id \in ViewIds, home_uri \in Locations :
           GotFileInfo(view_id, TRUE, FALSE, home_uri)
    \/ \E visible \in BOOLEAN, only_window \in BOOLEAN,
          home_uri \in Locations :
           GotFileInfo(NULL, visible, only_window, home_uri)
    \/ \E view \in Views, confirmed \in BOOLEAN, in_trash \in BOOLEAN :
           ReportLoadUnderway(view, confirmed, in_trash)
    \/ \E view \in Views : ReportLoadComplete(view)
    \/ \E view \in Views, visible \in BOOLEAN : ReportViewFailed(view, visible)
    \/ StopLoading
    \/ \E id \in ViewIds, home_uri \in Locations : SetContentView(id, home_uri)
    \/ \E confirmed \in BOOLEAN, is_in_trash \in BOOLEAN,
          go_to_uri \in Locations \cup {NULL}, home_uri \in Locations :
           ViewedFileChanged(confirmed, TRUE, is_in_trash, go_to_uri,
                             home_uri, window.location)
    \/ \E confirmed \in BOOLEAN, is_in_trash \in BOOLEAN,
          new_location \in Locations :
           ViewedFileChanged(confirmed, FALSE, is_in_trash, NULL,
                             ROOT_URI, new_location)
    \/ ManageViewsFinalize

SpecNav == InitNav /\ [][NextNav]_vars

\* =====================================================================
\* Properties
\* =====================================================================
GetStep == pc = "idle" /\ pc' = "got"
SweepStep == sweep_timer # 0 /\ sweep_timer' = 0
LiveIcons == {i \in DOMAIN status : status[i] = "live"}
InList(i) == next[i] # NULL
Mapped(k) == stored_key(Heap, k) # {}
EntryOf(k) == lookup_icon_from_cache(Heap, k)
\* the key the get of this step was called with, and what it found
GotKey == cur'.key
Found == EntryOf(GotKey)
FoundStale ==
    /\ Found # NULL
    /\ is_absolute(GotKey.name)
    /\ \/ ~fs[GotKey.name.s].isreg
       \/ fs[GotKey.name.s].mtime # mtime[Found]
Synthesis(k, modifier) ==
    create_normal_cache_icon(k.name, modifier, k.nominal_size, k.force_nominal)
SynthesisFails(k) ==
    /\ ~Synthesis(k, k.modifier).found
    /\ ~k.modifier.null => ~Synthesis(k, NullStr).found

\* C1: a get that misses and whose synthesis fails, with the modifier and
\* without it, returns the fallback icon: no icon is made, the key is mapped
\* to the fallback, and the fallback gains one reference for the mapping
\* (unless the key was mapped to it already) and one for the caller.
C1_FallbackSubstitution ==
    [][(GetStep /\ ~GotKey.name.null /\ (Found = NULL \/ FoundStale)
                /\ SynthesisFails(GotKey))
       => /\ ret' = fallback_icon
          /\ \E kk \in DOMAIN icon_cache' :
                 cache_key_equal(kk, GotKey) /\ icon_cache'[kk] = fallback_icon
          /\ ref_count'[fallback_icon] =
                 ref_count[fallback_icon]
                 + (IF Found = fallback_icon THEN 1 ELSE 2)
          /\ {i \in DOMAIN status : status'[i] = "live"} \subseteq LiveIcons
          /\ status'[fallback_icon] = "live"
          /\ pixbuf_ref'[fallback_icon] = pixbuf_ref[fallback_icon]
          /\ mtime'[fallback_icon] = mtime[fallback_icon]]_vars

\* a get with a modifier has just returned the fallback icon, now referenced
\* by the table and by the caller
C1_Witness ==
    /\ pc = "got"
    /\ ~cur.key.modifier.null
    /\ ret = fallback_icon
    /\ ref_count[fallback_icon] >= 3
    /\ Mapped(cur.key) /\ EntryOf(cur.key) = fallback_icon

NullOrEmpty(name) == name.null \/ name.s = << >>
CacheUntouched ==
    UNCHANGED <<icon_cache, next, prev, recently_used_count, sweep_timer,
                ref_count, status>>

\* C2 as stated: get returns NULL exactly for a null or empty name, and such
\* a name leaves the mapping, the list and the timer alone.
C2_Original_NullOrEmpty ==
    [][GetStep => /\ (ret' = NULL) <=> NullOrEmpty(GotKey.name)
                  /\ NullOrEmpty(GotKey.name) => CacheUntouched]_vars

\* C2 as amended: get returns NULL exactly for a null name pointer and then
\* changes nothing; every other name, the empty string too, gets a live
\* entry that is mapped under the key, and a sweep is pending afterwards.
C2_NullNameOnly ==
    [][GetStep => /\ (ret' = NULL) <=> GotKey.name.null
                  /\ GotKey.name.null => CacheUntouched
                  /\ ~GotKey.name.null =>
                        /\ status'[ret'] = "live"
                        /\ \E kk \in DOMAIN icon_cache' :
                               /\ cache_key_equal(kk, GotKey)
                               /\ icon_cache'[kk] = ret'
                        /\ sweep_timer' # 0]_vars

\* a get with a null name has returned NULL to its caller
C2_Witness == pc = "got" /\ cur.key.name.null /\ ret = NULL

\* C3: a get that directly follows a get with the same arguments returns the same
\* entry, with its pixbuf untouched, and adds exactly one reference to it.
C3_HitStability ==
    [][(GetStep /\ last_get.valid /\ last_get.key = GotKey)
       => /\ ret' = last_get.icon
          /\ status[ret'] = "live" /\ status'[ret'] = "live"
          /\ ref_count'[ret'] = ref_count[ret'] + 1
          /\ pixbuf_ref'[ret'] = pixbuf_ref[ret']]_vars

\* the second of two gets for one key has returned a synthesized entry
C3_Witness ==
    /\ pc = "got"
    /\ last_get.repeat
    /\ ret # fallback_icon
    /\ ref_count[ret] = 2

MapsTo(cache, k, i) ==
    \E kk \in DOMAIN cache : cache_key_equal(kk, k) /\ cache[kk] = i
FileOf(k) == fs[k.name.s]

\* C4 as stated: a get that finds a path entry whose file is gone, is not
\* regular or has another mtime than the entry returns an entry that carries
\* the file's present mtime, maps the key to it and releases the old entry.
C4_Original_MtimeFollowsFile ==
    [][(GetStep /\ ~GotKey.name.null /\ FoundStale)
       => /\ FileOf(GotKey).isreg => mtime'[ret'] = FileOf(GotKey).mtime
          /\ MapsTo(icon_cache', GotKey, ret')
          /\ Found # fallback_icon => status'[Found] = "freed"]_vars

\* C4 as amended: such a get never returns the stale entry.  If the file can
\* be loaded it returns a new entry with the file's present mtime; if not
\* (gone, not regular, not an image) it returns the fallback icon, whose
\* mtime stays 0.  Either way the key is mapped to what is returned, and the
\* old entry loses the table's reference: it is freed and out of the list,
\* or, if it was the fallback, one reference down.
C4_StaleReload ==
    [][(GetStep /\ ~GotKey.name.null /\ FoundStale)
       => /\ IF SynthesisFails(GotKey)
             THEN /\ ret' = fallback_icon
                  /\ mtime'[ret'] = 0
             ELSE /\ ret' # Found
                  /\ status[ret'] # "live" /\ status'[ret'] = "live"
                  /\ mtime'[ret'] = FileOf(GotKey).mtime
          /\ MapsTo(icon_cache', GotKey, ret')
          /\ Found # fallback_icon =>
                 /\ status'[Found] = "freed"
                 /\ next'[Found] = NULL
                 /\ \A n \in DOMAIN next' : next'[n] # Found
          /\ Found = fallback_icon =>
                 ref_count'[Found] =
                     ref_count[Found] - 1
                     + (IF ret' = fallback_icon THEN 2 ELSE 0)]_vars

\* a get has found a stale path entry and returned a new one that carries
\* the changed mtime of the file
C4_Witness ==
    /\ pc = "got"
    /\ last_get.stale
    /\ ret # fallback_icon
    /\ mtime[ret] # 0
    /\ mtime[ret] = FileOf(cur.key).mtime

RunIcons == {run[j].icon : j \in 1..Len(run)}
FullRun == Len(run) = ICON_CACHE_COUNT + 1

\* C5 as stated: after ICON_CACHE_COUNT + 1 gets in a row on distinct keys
\* the list has ICON_CACHE_COUNT nodes, and the entry of the first of these
\* keys is out of the list and still in the table.
C5_Original_DistinctKeys ==
    FullRun =>
        /\ recently_used_count = ICON_CACHE_COUNT
        /\ EntryOf(run[1].key) # NULL
        /\ next[EntryOf(run[1].key)] = NULL

\* C5 as amended: the same, for gets that returned ICON_CACHE_COUNT + 1
\* distinct entries (keys that share the fallback icon share one node); the
\* other entries of the run are all in the list.
C5_CapacityEviction ==
    (FullRun /\ Cardinality(RunIcons) = ICON_CACHE_COUNT + 1) =>
        /\ recently_used_count = ICON_CACHE_COUNT
        /\ EntryOf(run[1].key) = run[1].icon
        /\ status[run[1].icon] = "live"
        /\ next[run[1].icon] = NULL /\ prev[run[1].icon] = NULL
        /\ \A j \in 2..Len(run) :
               /\ EntryOf(run[j].key) = run[j].icon
               /\ next[run[j].icon] # NULL

\* ICON_CACHE_COUNT + 1 gets in a row have returned as many entries
C5_Witness ==
    /\ pc = "idle"
    /\ FullRun
    /\ Cardinality(RunIcons) = ICON_CACHE_COUNT + 1
    /\ recently_used_count = ICON_CACHE_COUNT

\* C6: a sweep leaves every entry that is in the recently used list in the
\* table and in the list.
C6_SweepKeepsListed ==
    [][SweepStep =>
          \A k \in DOMAIN icon_cache :
              next[icon_cache[k]] # NULL =>
                  /\ k \in DOMAIN icon_cache'
                  /\ icon_cache'[k] = icon_cache[k]
                  /\ status'[icon_cache[k]] = "live"
                  /\ next'[icon_cache[k]] = next[icon_cache[k]]
                  /\ prev'[icon_cache[k]] = prev[icon_cache[k]]]_vars

\* a sweep has run on a full list and a larger table: what is left in the
\* table is what the list holds
C6_Witness ==
    /\ sweep_timer = 0
    /\ fill_next > ICON_CACHE_COUNT + 1
    /\ recently_used_count = ICON_CACHE_COUNT
    /\ Cardinality(DOMAIN icon_cache) = ICON_CACHE_COUNT
    /\ \A k \in DOMAIN icon_cache : next[icon_cache[k]] # NULL

\* C7 as stated: an entry that is out of the list, whose pixbuf nobody else
\* holds and that has been through fewer than ICON_MAX_AGE sweeps is still
\* in the table after the next sweep.
C7_SurvivesTenSweeps ==
    [][SweepStep =>
          \A k \in DOMAIN icon_cache :
              (/\ next[icon_cache[k]] = NULL
               /\ pixbuf_ref[icon_cache[k]] = 1
               /\ age[icon_cache[k]] < ICON_MAX_AGE)
              => /\ k \in DOMAIN icon_cache'
                 /\ status'[icon_cache[k]] = "live"]_vars

\* C8: a sweep leaves every entry whose pixbuf somebody else holds in the
\* table.
C8_SweepKeepsHeldPixbuf ==
    [][SweepStep =>
          \A k \in DOMAIN icon_cache :
              pixbuf_ref[icon_cache[k]] > 1 =>
                  /\ k \in DOMAIN icon_cache'
                  /\ icon_cache'[k] = icon_cache[k]
                  /\ status'[icon_cache[k]] = "live"
                  /\ pixbuf_ref'[icon_cache[k]] = pixbuf_ref[icon_cache[k]]]_vars

\* a sweep has run and left an entry that is out of the list because a
\* caller holds its pixbuf
C8_Witness ==
    /\ sweep_timer = 0
    /\ \E k \in DOMAIN icon_cache :
           /\ next[icon_cache[k]] = NULL
           /\ pixbuf_ref[icon_cache[k]] > 1

\* C9: a freed icon has reference count zero and is not linked in the list,
\* and no freed icon is ever referenced, released or freed again.
C9_FreedOnceUnlinked ==
    /\ err \notin {"use_after_free", "assert_ref_count"}
    /\ \A i \in DOMAIN status :
           status[i] = "freed" =>
               /\ ref_count[i] = 0
               /\ next[i] = NULL /\ prev[i] = NULL
               /\ \A n \in DOMAIN next : next[n] # i /\ prev[n] # i
    /\ \A k \in DOMAIN icon_cache : status[icon_cache[k]] = "live"
    /\ ret # NULL => status[ret] = "live"

\* an icon has been freed while other icons are in the list
C9_Witness ==
    /\ recently_used_count > 0
    /\ \E i \in DOMAIN status : status[i] = "freed"

Freed(i) == status[i] = "live" /\ status'[i] = "freed"

\* C10 as stated: an icon that is in the list when its reference count
\* drops to zero is not destroyed in that step.
C10_Original_Deferred ==
    [][\A i \in DOMAIN status :
           (status[i] = "live" /\ next[i] # NULL /\ ref_count'[i] = 0)
           => status'[i] = "live"]_vars

\* C10 as amended: the release that drops the count to zero destroys the
\* icon at once, in the list or not; if it is in the list it is unlinked
\* first and the list count goes down by one.  No live icon has count zero.
C10_ImmediateDestruction ==
    [][/\ \A i \in DOMAIN status :
              (status[i] = "live" /\ ref_count'[i] = 0)
              => /\ status'[i] = "freed"
                 /\ next'[i] = NULL /\ prev'[i] = NULL
                 /\ \A n \in DOMAIN next' : next'[n] # i /\ prev'[n] # i
                 /\ pixbuf_ref'[i] = pixbuf_ref[i] - 1
       /\ \A i \in DOMAIN status : status'[i] = "live" => ref_count'[i] >= 1
       /\ ~GetStep =>
              recently_used_count' =
                  recently_used_count
                  - Cardinality({i \in DOMAIN status :
                                     Freed(i) /\ next[i] # NULL})]_vars

\* the icon that the last get put in the list has been freed out of it
\* before any sweep ran
C10_Witness ==
    /\ pc = "idle"
    /\ sweep_timer # 0
    /\ recently_used_count = 0
    /\ \E i \in DOMAIN status : status[i] = "freed"

\* a step that is the call op, as last_op records it (the one step that
\* leaves last_op alone finishes a get and starts with pc = "got")
OpStep(op) == pc = "idle" /\ last_op'.op = op
PathKeys(cache) == {k \in DOMAIN cache : is_absolute(k.name)}

\* C11: a clear that keeps pathnames removes the mappings whose name does
\* not start with '/' and no other; every path mapping keeps its entry,
\* which stays live with its pixbuf, mtime and age, in the list if it was
\* (and with its reference count, unless it is the fallback icon, which the
\* removed names may have shared).  A clear of everything leaves the table
\* empty.
C11_ClearKeepsPathnames ==
    [][OpStep("clear") =>
          IF last_op'.result
          THEN DOMAIN icon_cache' = {}
          ELSE /\ DOMAIN icon_cache' = PathKeys(icon_cache)
               /\ \A k \in PathKeys(icon_cache) :
                      LET i == icon_cache[k] IN
                      /\ icon_cache'[k] = i
                      /\ status'[i] = "live"
                      /\ pixbuf_ref'[i] = pixbuf_ref[i]
                      /\ mtime'[i] = mtime[i]
                      /\ age'[i] = age[i]
                      /\ (next'[i] = NULL) <=> (next[i] = NULL)
                      /\ i # fallback_icon => ref_count'[i] = ref_count[i]]_vars

\* a clear of the icon names has run: a path mapping with a loaded image is
\* all that is left in the table, and an icon has been freed
C11_Witness ==
    /\ last_op = Op("clear", NoKey, FALSE)
    /\ DOMAIN icon_cache # {}
    /\ \A k \in DOMAIN icon_cache :
           is_absolute(k.name) /\ icon_cache[k] # fallback_icon
    /\ \E i \in DOMAIN status : status[i] = "freed"

ClearAsserts == {"assert_clear_count", "assert_clear_single",
                 "assert_clear_fallback"}

\* C12: a clear of everything leaves the list empty or with the fallback
\* icon's node as its only node, no other icon stays alive, and none of the
\* assertions of nautilus_icon_factory_clear fails.
C12_FullClearLeavesFallback ==
    [][(OpStep("clear") /\ last_op'.result) =>
          /\ err' \notin ClearAsserts
          /\ recently_used_count' \in {0, 1}
          /\ recently_used_count' = 0 =>
                 /\ next'[HEAD] = HEAD /\ prev'[HEAD] = HEAD
                 /\ next'[fallback_icon] = NULL
          /\ recently_used_count' = 1 =>
                 /\ next'[HEAD] = fallback_icon /\ prev'[HEAD] = fallback_icon
                 /\ next'[fallback_icon] = HEAD /\ prev'[fallback_icon] = HEAD
          /\ \A i \in DOMAIN status :
                 status'[i] = "live" => i = fallback_icon]_vars

\* a clear of everything has freed the icons that were in the list and has
\* left the fallback icon's node there
C12_Witness ==
    /\ last_op = Op("clear", NoKey, TRUE)
    /\ err = ""
    /\ recently_used_count = 1
    /\ next[HEAD] = fallback_icon
    /\ Cardinality({i \in DOMAIN status : status[i] = "freed"}) >= 2

\* the mappings that a name, a modifier and a size identify
MappingsFor(cache, k) ==
    {kk \in DOMAIN cache :
         /\ eel_strcmp_eq(kk.name, k.name)
         /\ eel_strcmp_eq(kk.modifier, k.modifier)
         /\ kk.nominal_size = k.nominal_size}

\* C13 as stated: remove_from_cache returns TRUE exactly when the table had
\* a mapping for its name, modifier and size, and leaves none behind.
C13_RemoveByNameModifierSize ==
    [][OpStep("remove") =>
          /\ last_op'.result <=> MappingsFor(icon_cache, last_op'.key) # {}
          /\ MappingsFor(icon_cache', last_op'.key) = {}]_vars

FallbackKeys == {k \in DOMAIN icon_cache : icon_cache[k] = fallback_icon}

\* C14: the fallback icon is alive in every state, with its pixbuf, and its
\* reference count is the factory's own reference plus one for each key
\* mapped to it plus one while a get has it in hand: never below 1.
C14_FallbackAlwaysLive ==
    /\ status[fallback_icon] = "live"
    /\ pixbuf_ref[fallback_icon] >= 1
    /\ ref_count[fallback_icon] =
           1 + Cardinality(FallbackKeys)
             + (IF pc = "got" /\ ret = fallback_icon THEN 1 ELSE 0)

\* the fallback icon has been handed out under some key, so that it is in
\* the list, and every mapping to it has been removed again
C14_Witness ==
    /\ pc = "idle"
    /\ err = ""
    /\ DOMAIN icon_cache = {}
    /\ next[fallback_icon] # NULL
    /\ ref_count[fallback_icon] = 1

ReturnStep == pc = "got" /\ pc' = "idle"
StrippedRetry(k) ==
    /\ ~k.name.null /\ ~k.modifier.null
    /\ ~Synthesis(k, k.modifier).found
    /\ Synthesis(k, NullStr).found

\* C15: a get with a modifier that misses, finds nothing under the name with
\* the modifier and finds the icon under the bare name makes a new entry and
\* maps it under the key it was called with, modifier included; no other
\* key is added; the entry is at the head of the list, with one reference
\* for the table and one for the caller.  Once the caller has the pixbuf the
\* count is 1 and the entry is still at the head.
C15_ModifierStrippedRetry ==
    [][/\ (GetStep /\ StrippedRetry(GotKey) /\ Found = NULL) =>
              /\ ret' # fallback_icon
              /\ status[ret'] # "live" /\ status'[ret'] = "live"
              /\ DOMAIN icon_cache' = DOMAIN icon_cache \cup {GotKey}
              /\ icon_cache'[GotKey] = ret'
              /\ \A k \in DOMAIN icon_cache : icon_cache'[k] = icon_cache[k]
              /\ ref_count'[ret'] = 2
              /\ next'[HEAD] = ret' /\ prev'[ret'] = HEAD
       /\ (ReturnStep /\ ret # NULL /\ ret # fallback_icon) =>
              /\ ref_count'[ret] = 1
              /\ status'[ret] = "live"
              /\ next'[HEAD] = ret /\ prev'[ret] = HEAD
              /\ UNCHANGED icon_cache]_vars

\* the caller has the pixbuf of an entry that a get with a modifier has
\* made from the bare name: the only mapping is the one with the modifier
C15_Witness ==
    /\ pc = "idle"
    /\ last_get.valid /\ ~last_get.repeat
    /\ StrippedRetry(last_get.key)
    /\ DOMAIN icon_cache = {last_get.key}
    /\ icon_cache[last_get.key] = last_get.icon
    /\ last_get.icon # fallback_icon
    /\ ref_count[last_get.icon] = 1
    /\ next[HEAD] = last_get.icon
    /\ \A i \in DOMAIN status : status[i] # "freed"

\* C16 as stated: two keys compare equal exactly when their four fields
\* are the same, a null modifier being the same as a null modifier only.
C16_Original_FieldwiseEqual ==
    key_cmp.done =>
        (key_cmp.equal <=>
            /\ key_a.name = key_b.name
            /\ key_a.modifier = key_b.modifier
            /\ key_a.nominal_size = key_b.nominal_size
            /\ key_a.force_nominal = key_b.force_nominal)

\* the bytes of a string, those of the empty string for the null pointer
Bytes(str) == IF str.null THEN << >> ELSE str.s

\* C16 as amended: two keys compare equal exactly when their names have the
\* same bytes, their modifiers have the same bytes, and their sizes and
\* force-nominal flags are the same, where a null pointer stands for the
\* empty string in both string fields.
C16_EqualUpToNullAsEmpty ==
    key_cmp.done =>
        (key_cmp.equal <=>
            /\ Bytes(key_a.name) = Bytes(key_b.name)
            /\ Bytes(key_a.modifier) = Bytes(key_b.modifier)
            /\ key_a.nominal_size = key_b.nominal_size
            /\ key_a.force_nominal = key_b.force_nominal)

\* two keys that differ in a null against an empty modifier only have been
\* compared and found equal
C16_Witness ==
    /\ key_cmp.done /\ key_cmp.equal
    /\ key_a.modifier.null /\ ~key_b.modifier.null
    /\ ~key_a.name.null /\ key_a.name = key_b.name

\* C17 as stated: two keys (with names, so that they can be hashed) that
\* cache_key_equal takes for equal have the same cache_key_hash value.
C17_HashConsistentWithEqual ==
    (key_cmp.done /\ key_cmp.equal /\ ~key_a.name.null /\ ~key_b.name.null)
        => key_cmp.hash_a = key_cmp.hash_b

\* C18 as stated: no two keys of the table compare equal.
C18_OneMappingPerKey ==
    \A k1, k2 \in DOMAIN icon_cache : cache_key_equal(k1, k2) => k1 = k2

\* ---------------------------------------------------------------------
\* the key a get for a file was called with, the placeholder key it asks
\* the cache for while the thumbnail is not there, and the requests for
\* the key that are still on the list
LoadingKey(k) ==
    CacheKey(Str(ICON_NAME_THUMBNAIL_LOADING), k.modifier, k.nominal_size,
             k.force_nominal)
PendingFor(k) ==
    {i \in 1..Len(async_thumbnail_load_handles) :
         async_thumbnail_load_handles[i] = LoadData(k)}

\* C19 as stated: a get for a file made while a request for its key is
\* still pending is answered with the loading placeholder.
C19_Original_PlaceholderWhilePending ==
    [][(OpStep("get_for_file") /\ PendingFor(last_op'.key) # {})
           => cur'.key = LoadingKey(last_op'.key)]_vars

\* C19: a get for a file on a thumbnail path that is not in the table
\* starts one more load (put at the front of the list, whether or not one
\* for the same key is pending), marks the file as thumbnailing, loads
\* nothing under the path key and returns the entry of the loading
\* placeholder; once the key is in the table (a load for it has arrived) a
\* get starts no load and returns the entry of the key, even while other
\* loads for the key are pending.
C19_GetForFileStartsLoad ==
    [][OpStep("get_for_file") =>
           LET k == last_op'.key IN
           IF EntryOf(k) = NULL
           THEN /\ async_thumbnail_load_handles' =
                       <<LoadData(k)>> \o async_thumbnail_load_handles
                /\ is_thumbnailing'
                /\ cur'.key = LoadingKey(k)
                /\ ret' # NULL
                /\ ret' = icon_cache'[LoadingKey(k)]
                /\ k \notin DOMAIN icon_cache'
           ELSE /\ UNCHANGED <<async_thumbnail_load_handles, is_thumbnailing>>
                /\ cur'.key = k
                /\ ret' # NULL
                /\ ret' = icon_cache'[k]]_vars

\* a second get for the same key was just answered with the placeholder
\* while the first load is pending: two requests for one key on the list
C19_Witness ==
    /\ pc = "got"
    /\ last_op.op = "get_for_file"
    /\ last_op.result
    /\ cur.key = LoadingKey(last_op.key)
    /\ is_thumbnailing
    /\ Cardinality(PendingFor(last_op.key)) >= 2
    /\ ~Mapped(last_op.key)

\* C20: when a load arrives and the path is a regular file, its handle
\* leaves the list, one new entry goes into the table under the path and
\* the modifier, size and force flag of the request, with the mtime the
\* file has at that moment, no other mapping changes, the thumbnailing flag
\* of the file is cleared, and nautilus_file_changed is called with the
\* entry in the table.
C20_ArrivalInsertsAndNotifies ==
    [][(OpStep("loaded") /\ last_op'.result) =>
           LET k == last_op'.key IN
           /\ \E i \in PendingFor(k) :
                  async_thumbnail_load_handles' =
                      remove_handle(async_thumbnail_load_handles, i)
           /\ DOMAIN icon_cache' = DOMAIN icon_cache \cup {k}
           /\ \A j \in DOMAIN icon_cache \ {k} : icon_cache'[j] = icon_cache[j]
           /\ status[icon_cache'[k]] # "live"
           /\ status'[icon_cache'[k]] = "live"
           /\ ref_count'[icon_cache'[k]] = 1
           /\ mtime'[icon_cache'[k]] = fs[k.name.s].mtime
           /\ ~is_thumbnailing'
           /\ file_changed' = [notified |-> TRUE, mapped |-> TRUE]]_vars

\* a load has just arrived for a file changed since the request, another
\* is still pending
C20_Witness ==
    /\ pc = "idle"
    /\ last_op.op = "loaded"
    /\ last_op.result
    /\ Mapped(last_op.key)
    /\ mtime[icon_cache[last_op.key]] = 2
    /\ file_changed.mapped
    /\ ~is_thumbnailing
    /\ async_thumbnail_load_handles # << >>

\* ---------------------------------------------------------------------
\* C21: when a load arrives and the path is gone or no regular file,
\* nothing is inserted: the table, the icons and the recently used list
\* stay as they were, the handle leaves the list of pending loads, the
\* thumbnailing flag of the file is cleared, nautilus_file_changed is not
\* called and nothing fails.
C21_FailedArrivalInsertsNothing ==
    [][(OpStep("loaded") /\ ~last_op'.result) =>
           /\ UNCHANGED <<icon_cache, status, ref_count, pixbuf_ref, mtime,
                          next, prev, recently_used_count>>
           /\ \E i \in PendingFor(last_op'.key) :
                  async_thumbnail_load_handles' =
                      remove_handle(async_thumbnail_load_handles, i)
           /\ ~is_thumbnailing'
           /\ file_changed' = NoArrival
           /\ err' = ""]_vars

\* a load has just arrived for a file that is gone; nothing is mapped
\* under its key
C21_Witness ==
    /\ pc = "idle"
    /\ last_op.op = "loaded"
    /\ ~last_op.result
    /\ ~stat_is_regular(last_op.key.name)
    /\ ~Mapped(last_op.key)
    /\ ~file_changed.notified
    /\ ~is_thumbnailing
    /\ err = ""

\* ---------------------------------------------------------------------
\* C22: when the factory is finalized, every load that is still on the
\* list of handles is cancelled, each once, and the list is empty
\* afterwards: no load asked for before is left neither arrived nor
\* cancelled.
C22_FinalizeCancelsPending ==
    [][OpStep("finalize") =>
           /\ cancelled' = async_thumbnail_load_handles
           /\ async_thumbnail_load_handles' = << >>
           /\ pc' = "finalized"]_vars

\* the factory was finalized with two loads pending, both are cancelled
C22_Witness ==
    /\ pc = "finalized"
    /\ last_op.op = "finalize"
    /\ Len(cancelled) = 2
    /\ async_thumbnail_load_handles = << >>
    /\ err = ""

\* ---------------------------------------------------------------------
\* the sizes of the claims, in order
Ladder == <<16, 24, 32, 48, 72, 96, 192>>
LadderSizes == {Ladder[i] : i \in DOMAIN Ladder}
Least(S) == CHOOSE x \in S : \A y \in S : x <= y
Greatest(S) == CHOOSE x \in S : \A y \in S : x >= y

\* C23: nautilus_icon_factory_get_larger_icon_size (size) is the smallest
\* size of the ladder strictly greater than size, and 192 when size >= 192.
C23_LargerIconSize ==
    size_result.fn = "larger" =>
        size_result.size =
            IF size_arg >= 192 THEN 192
            ELSE Least({l \in LadderSizes : l > size_arg})

\* the function was called with a size of the ladder and gave the next one
C23_Witness ==
    /\ size_result.fn = "larger"
    /\ size_arg = 96
    /\ size_result.size = 192

\* C24: nautilus_icon_factory_get_smaller_icon_size (size) is the largest
\* size of the ladder strictly smaller than size, and 16 when size <= 16.
C24_SmallerIconSize ==
    size_result.fn = "smaller" =>
        size_result.size =
            IF size_arg <= 16 THEN 16
            ELSE Greatest({l \in LadderSizes : l < size_arg})

\* the function was called with a size of the ladder and gave the one before
C24_Witness ==
    /\ size_result.fn = "smaller"
    /\ size_arg = 24
    /\ size_result.size = 16

\* C25: nautilus_get_icon_size_for_zoom_level gives the zoom levels 0..6
\* the sizes 16, 24, 32, 48, 72, 96, 192 in this order: a higher level
\* gets a strictly larger size, and every size lies between the smallest
\* and the largest icon size.
C25_ZoomLevelSizes ==
    LET levels == DOMAIN zoom_sizes \cap 0..6 IN
    /\ \A z \in levels : zoom_sizes[z] = Ladder[z + 1]
    /\ \A z1, z2 \in levels : z1 < z2 => zoom_sizes[z1] < zoom_sizes[z2]
    /\ \A z \in levels : 16 <= zoom_sizes[z] /\ zoom_sizes[z] <= 192

\* the function has been called with each of the seven levels
C25_Witness ==
    /\ 0..6 \subseteq DOMAIN zoom_sizes
    /\ zoom_sizes[0] = 16
    /\ zoom_sizes[6] = 192

\* ---------------------------------------------------------------- C26
\* the node reached from n by following next k times (NULL once off the list)
RECURSIVE Hop(_, _)
Hop(n, k) ==
    IF k = 0 \/ n = NULL THEN n ELSE Hop(next[n], k - 1)

\* the nodes passed on the way round from the head, as far as the counter says
ListNodes == {Hop(HEAD, j) : j \in 1..recently_used_count}

\* everything C26 says but the length of the way round
LinksConsistent ==
    /\ recently_used_count <= ICON_CACHE_COUNT
    /\ \A n \in DOMAIN next :
           next[n] # NULL =>
               /\ prev[n] # NULL
               /\ prev[next[n]] = n
               /\ next[prev[n]] = n
    /\ HEAD \notin DOMAIN status
    /\ ret # HEAD
    /\ \A k \in DOMAIN icon_cache : icon_cache[k] # HEAD
    /\ \A i \in ListNodes : i \in DOMAIN status /\ status[i] = "live"
    /\ \A i \in DOMAIN status :
           i \notin ListNodes => next[i] = NULL /\ prev[i] = NULL

\* C26 as stated: following next from the head comes back to the head after
\* exactly recently_used_count hops; prev and next agree; the head is no
\* entry; the count is at most ICON_CACHE_COUNT; a node out of the list has
\* both pointers null.
C26_Original_CountHops ==
    /\ LinksConsistent
    /\ Hop(HEAD, recently_used_count) = HEAD

\* C26 as amended: the same, the way round being recently_used_count + 1
\* hops long: it passes recently_used_count entries, all distinct, and the
\* next hop is the first to come back to the head.
C26_RecencyListWellFormed ==
    /\ LinksConsistent
    /\ Hop(HEAD, recently_used_count + 1) = HEAD
    /\ HEAD \notin ListNodes
    /\ Cardinality(ListNodes) = recently_used_count

\* the list is full and an entry has been bumped off its end
C26_Witness ==
    /\ recently_used_count = ICON_CACHE_COUNT
    /\ Hop(HEAD, ICON_CACHE_COUNT + 1) = HEAD
    /\ \E k \in DOMAIN icon_cache :
           icon_cache[k] \notin ListNodes /\ next[icon_cache[k]] = NULL

\* ---------------------------------------------------------------- C27
\* the cache as mark_recently_used finds it in the get of this step: the
\* entry is looked up or made and the caller's reference taken
Referenced == get_icon_referenced(Heap, GotKey).H

\* C27: a get that returns an entry leaves it right after the head of the
\* list with age 0; if the entry was right after the head when it came to be
\* promoted, the promotion leaves the links of the list and its count as
\* they were, and so does the whole get when it found the entry in the table
\* and kept it.
C27_GetPromotesToHead ==
    [][(GetStep /\ ret' # NULL) =>
          /\ next'[HEAD] = ret'
          /\ prev'[ret'] = HEAD
          /\ age'[ret'] = 0
          /\ status'[ret'] = "live"
          /\ Referenced.next[HEAD] = ret' =>
                 /\ next' = Referenced.next
                 /\ prev' = Referenced.prev
                 /\ recently_used_count' = Referenced.recently_used_count
          /\ (Found = ret' /\ ~FoundStale /\ next[HEAD] = ret') =>
                 /\ next' = next
                 /\ prev' = prev
                 /\ recently_used_count' = recently_used_count]_vars

\* a key got before is got again with others got in between: its entry is
\* back at the head of a list of several
C27_Witness ==
    /\ pc = "got"
    /\ ret # NULL /\ ret # fallback_icon
    /\ last_get.valid /\ last_get.icon = ret
    /\ Len(run) = 1
    /\ recently_used_count >= 3
    /\ next[HEAD] = ret
    /\ prev[ret] = HEAD
    /\ next[ret] # HEAD
    /\ age[ret] = 0

\* ---------------------------------------------------------------- C28
\* the step is a get whose mark_recently_used finds the list full and the
\* entry to promote out of it
BumpStep ==
    /\ GetStep /\ ret' # NULL
    /\ Referenced.recently_used_count = ICON_CACHE_COUNT
    /\ Referenced.next[ret'] = NULL
\* the node at the end of the list then
LastNode == Referenced.prev[HEAD]

\* C28: when a new node is promoted into a full list the node at the end of
\* the list is unlinked and nothing more: both its pointers are null, it is
\* still allocated, its reference count is what it was, the keys mapped to
\* it are still mapped to it, the list still has ICON_CACHE_COUNT nodes and
\* it is not one of them, so that the next sweep takes it unless its pixbuf
\* is held.
C28_BumpOnlyUnlinks ==
    [][BumpStep =>
          /\ LastNode # HEAD /\ LastNode # ret'
          /\ next[LastNode] = HEAD
          /\ next'[LastNode] = NULL /\ prev'[LastNode] = NULL
          /\ status[LastNode] = "live" /\ status'[LastNode] = "live"
          /\ ref_count'[LastNode] = ref_count[LastNode]
          /\ pixbuf_ref'[LastNode] = pixbuf_ref[LastNode]
          /\ age'[LastNode] = age[LastNode]
          /\ \A k \in DOMAIN icon_cache :
                 /\ k \in DOMAIN icon_cache'
                 /\ icon_cache[k] = LastNode => icon_cache'[k] = LastNode
          /\ \E k \in DOMAIN icon_cache' : icon_cache'[k] = LastNode
          /\ recently_used_count' = ICON_CACHE_COUNT
          /\ LastNode \notin ListNodes'
          /\ nautilus_icon_factory_possibly_free_cached_icon(
                 Heap', LastNode).remove = (pixbuf_ref'[LastNode] <= 1)]_vars

\* the get of one more key than the list takes has just sent the entry of
\* the first out of the list, and nothing has released it
C28_Witness ==
    /\ pc = "got"
    /\ FullRun
    /\ ret = run[Len(run)].icon
    /\ next[HEAD] = ret
    /\ recently_used_count = ICON_CACHE_COUNT
    /\ run[1].icon \notin ListNodes
    /\ next[run[1].icon] = NULL /\ prev[run[1].icon] = NULL
    /\ status[run[1].icon] = "live"
    /\ ref_count[run[1].icon] >= 1
    /\ EntryOf(run[1].key) = run[1].icon

\* ---------------------------------------------------------------- C29
\* what the sweep predicate skips: an entry in the list or with a held pixbuf
Skipped(i) == next[i] # NULL \/ pixbuf_ref[i] > 1
KeysOf(i) == {k \in DOMAIN icon_cache : icon_cache[k] = i}
\* the entry went through cache_icon_unref once for each key mapped to it
ReleasedPerKey(i) ==
    IF ref_count[i] > Cardinality(KeysOf(i))
    THEN /\ status'[i] = "live"
         /\ ref_count'[i] = ref_count[i] - Cardinality(KeysOf(i))
         /\ pixbuf_ref'[i] = pixbuf_ref[i]
    ELSE /\ ref_count[i] = Cardinality(KeysOf(i))
         /\ status'[i] = "freed"
         /\ ref_count'[i] = 0
         /\ pixbuf_ref'[i] = pixbuf_ref[i] - 1
         /\ next'[i] = NULL /\ prev'[i] = NULL

\* C29: in one sweep every entry that is skipped, being in the list or
\* having its pixbuf held, has its age incremented by one, and every entry
\* that is taken out of the table is released through cache_icon_unref,
\* once for each key that was mapped to it.
C29_SweepAgesSkipped ==
    [][SweepStep =>
          \A k \in DOMAIN icon_cache :
              IF Skipped(icon_cache[k])
              THEN age'[icon_cache[k]] = age[icon_cache[k]] + 1
              ELSE k \notin DOMAIN icon_cache'
                       => ReleasedPerKey(icon_cache[k])]_vars

\* ---------------------------------------------------------------- C30
\* C30: at most one sweep timeout is pending, and sweep_timer is set exactly
\* while one is; a get made while one is pending leaves the timer as it is,
\* a get made while none is arms exactly one; the timeout that fires is gone
\* and nothing takes its place before the next get.
C30_OneSweepTimer ==
    [][/\ pending_timeouts' <= 1
       /\ (pending_timeouts' = 1) = (sweep_timer' # 0)
       /\ (GetStep /\ ret' # NULL) =>
              IF sweep_timer # 0
              THEN /\ sweep_timer' = sweep_timer
                   /\ pending_timeouts' = pending_timeouts
              ELSE /\ sweep_timer' # 0
                   /\ pending_timeouts' = pending_timeouts + 1
       /\ SweepStep =>
              /\ pending_timeouts = 1
              /\ pending_timeouts' = 0]_vars

\* the same key has been got twice in a row, the second time with the
\* timer of the first still pending: there is one timeout
C30_Witness ==
    /\ pc = "got"
    /\ last_get.valid /\ last_get.repeat
    /\ sweep_timer # 0
    /\ pending_timeouts = 1

\* ---------------------------------------------------------------- C31
\* the step is a get that returns an entry
GetReturnsEntry == GetStep /\ ret' # NULL

\* C31: the sweep timeout that fires leaves no sweep pending; a get that
\* returns an entry leaves one pending; no other step arms the timer, so
\* none is pending from the sweep to the next such get; clear, remove and
\* the arrival of a thumbnail leave the timer as it is.
C31_SweepRearmedOnlyByGet ==
    [][/\ OpStep("sweep") =>
              /\ sweep_timer # 0
              /\ sweep_timer' = 0 /\ pending_timeouts' = 0
       /\ GetReturnsEntry =>
              sweep_timer' # 0 /\ pending_timeouts' = 1
       /\ ~GetReturnsEntry =>
              /\ sweep_timer = 0 => sweep_timer' = 0
              /\ pending_timeouts' <= pending_timeouts
       /\ (OpStep("clear") \/ OpStep("remove") \/ OpStep("async")) =>
              UNCHANGED <<sweep_timer, pending_timeouts>>]_vars

\* the timer has fired after a get and the cache has been cleared since:
\* entries are left and no sweep is pending
C31_Witness ==
    /\ last_op.op = "clear"
    /\ sweep_timer = 0
    /\ pending_timeouts = 0
    /\ DOMAIN icon_cache # {}

\* ---------------------------------------------------------------- C32
\* the entries the factory can reach: mapped, in the list, or the fallback
ReachableIcons ==
    {icon_cache[k] : k \in DOMAIN icon_cache}
        \cup {i \in DOMAIN status : next[i] # NULL \/ prev[i] # NULL}
        \cup {fallback_icon}

\* C32: every entry that is mapped, in the list or the fallback is
\* allocated with a reference count of at least 1, and neither
\* cache_icon_ref nor cache_icon_unref has met a count below 1 or an entry
\* that was freed.  (This is of a factory that has not been finalized.)
C32_ReachableHaveReference ==
    /\ err \notin {"assert_ref_count", "use_after_free"}
    /\ pc # "finalized" =>
           \A i \in ReachableIcons :
               /\ i \in DOMAIN status
               /\ status[i] = "live"
               /\ ref_count[i] >= 1

\* a get is under way after a remove that found its key: the entry returned
\* holds the reference of the table and that of the caller, and an entry
\* has been freed before
C32_Witness ==
    /\ pc = "got"
    /\ ret # NULL /\ ret # fallback_icon
    /\ ref_count[ret] = 2
    /\ \E k \in DOMAIN icon_cache : icon_cache[k] = fallback_icon
    /\ ref_count[fallback_icon] >= 2
    /\ \E i \in DOMAIN status : status[i] = "freed"

\* ---------------------------------------------------------------- C33
\* the list without one request for the key k
WithoutOne(handles, k) ==
    {[j \in 1..(Len(handles) - 1) |->
          IF j < i THEN handles[j] ELSE handles[j + 1]] :
         i \in {j \in 1..Len(handles) : handles[j] = LoadData(k)}}

\* C33: a get for a file that starts a load puts one handle for its key on
\* the list and leaves the others; the arrival of a load takes one handle
\* for its key off the list, which was on it, and leaves the others; the
\* load is then no longer due; no other step before finalize changes the
\* list.
C33_HandlesAreOutstandingLoads ==
    [][/\ OpStep("get_for_file") =>
              async_thumbnail_load_handles' =
                  IF last_op'.result
                  THEN <<LoadData(last_op'.key)>>
                           \o async_thumbnail_load_handles
                  ELSE async_thumbnail_load_handles
       /\ OpStep("loaded") =>
              /\ async_thumbnail_load_handles'
                     \in WithoutOne(async_thumbnail_load_handles,
                                    last_op'.key)
              /\ Cardinality(callbacks_due(async_thumbnail_load_handles'))
                     = Cardinality(
                           callbacks_due(async_thumbnail_load_handles)) - 1
       /\ (pc' # "finalized"
              /\ async_thumbnail_load_handles'
                     # async_thumbnail_load_handles) =>
              OpStep("get_for_file") \/ OpStep("loaded")]_vars

\* two loads were outstanding, for two sizes; the one started first (the
\* second on the list) has arrived and the other is still on the list
C33_Witness ==
    /\ last_op.op = "loaded"
    /\ last_op.key.nominal_size = 48
    /\ async_thumbnail_load_handles
           = <<LoadData(CacheKey(Str(s_thumb_t), NullStr, 96, 0))>>

\* ---------------------------------------------------------------- C34
\* C34: once a thumbnail has arrived for a key and nautilus_file_changed was
\* called, a get for the key, the file being what it was, starts no load and
\* returns the entry of the key, whatever the cache has done in between.
C34_RerequestHitsCache ==
    [][(OpStep("get_for_file") /\ last_op'.key \in thumbnail_delivered) =>
           /\ ~last_op'.result
           /\ UNCHANGED async_thumbnail_load_handles
           /\ cur'.key = last_op'.key
           /\ ret' # NULL
           /\ ret' = icon_cache'[last_op'.key]]_vars

\* ---------------------------------------------------------------- C35
\* C35: while no call is under way every entry in the table but the
\* fallback icon has reference count 1 and one key mapped to it, and the
\* fallback icon has one reference more than keys mapped to it; finalize
\* never fails its assertion that the fallback icon is down to one
\* reference once the table is destroyed, and releases it then.
C35_TableHoldsOneReference ==
    /\ pc = "idle" =>
           /\ \A k \in DOMAIN icon_cache :
                  icon_cache[k] # fallback_icon =>
                      /\ ref_count[icon_cache[k]] = 1
                      /\ \A kk \in DOMAIN icon_cache :
                             icon_cache[kk] = icon_cache[k] => kk = k
           /\ ref_count[fallback_icon] = 1 + Cardinality(FallbackKeys)
    /\ err # "assert_finalize_fallback"
    /\ (pc = "finalized" /\ err = "") =>
           /\ DOMAIN icon_cache = {}
           /\ ref_count[fallback_icon] = 0
           /\ status[fallback_icon] = "freed"

\* the factory was finalized after it had made entries: the table is gone,
\* the list empty, the entries and the fallback icon freed
C35_Witness ==
    /\ pc = "finalized"
    /\ err = ""
    /\ status[fallback_icon] = "freed"
    /\ age[fallback_icon] = 0
    /\ \E i \in DOMAIN status : i # fallback_icon /\ status[i] = "freed"
    /\ recently_used_count = 0

\* ---------------------------------------------------------------- C36
\* the nodes some pointer of the list leads to
PointedTo == {next[n] : n \in DOMAIN next} \cup {prev[n] : n \in DOMAIN prev}

\* C36: every node linked in the list or pointed to from it is the node of
\* an allocated entry; an entry that a step frees has both pointers null
\* after it, no pointer leads to it, and the count of the list is the
\* number of nodes on the list again; nothing has followed a pointer into
\* a freed entry.
C36_ListedEntriesAreLive ==
    [][/\ \A i \in DOMAIN status :
              (status[i] = "live" /\ status'[i] = "freed") =>
                  /\ next'[i] = NULL /\ prev'[i] = NULL
                  /\ i \notin PointedTo'
                  /\ i \notin ListNodes'
                  /\ next[i] # NULL =>
                         recently_used_count' < recently_used_count
                             \/ GetStep
       /\ \A i \in DOMAIN status :
              (next'[i] # NULL \/ prev'[i] # NULL \/ i \in PointedTo'
                   \/ i \in ListNodes') => status'[i] = "live"
       /\ Cardinality(ListNodes') = recently_used_count'
       /\ err' # "use_after_free"]_vars

\* a remove has just freed an entry that was in the list, and others are
\* still in it
C36_Witness ==
    /\ last_op.op = "remove"
    /\ last_op.result
    /\ \E i \in DOMAIN status : status[i] = "freed"
    /\ recently_used_count >= 1
    /\ next[HEAD] # HEAD

\* ---------------------------------------------------------------- C37
\* C37: while a load for the file is outstanding the thumbnailing flag of
\* the file is set (the loads of this universe are all for the one file
\* behind the thumbnail path).
C37_FlagWhileLoadOutstanding ==
    (\E i \in 1..Len(async_thumbnail_load_handles) :
         async_thumbnail_load_handles[i].path.s \in ThumbPaths)
        => is_thumbnailing

\* ---------------------------------------------------------------- C38
\* C38: when a load arrives for a key that an earlier load (or a get) has
\* put in the table already, the key is mapped once, to the new entry; the
\* entry it was mapped to has been released once: freed, with its pixbuf
\* (if it had one) released and out of the list, or, if it was the fallback
\* icon, one reference down; nothing is released twice; and when the last load has
\* arrived the list of handles is empty.
C38_LaterArrivalSupersedes ==
    [][(OpStep("loaded") /\ last_op'.result /\ Mapped(last_op'.key)) =>
           LET k == last_op'.key
               old == EntryOf(k)
           IN /\ MappingsFor(icon_cache', k) = {k}
              /\ icon_cache'[k] # old
              /\ status[icon_cache'[k]] # "live"
              /\ status'[icon_cache'[k]] = "live"
              /\ ref_count'[icon_cache'[k]] = 1
              /\ IF old = fallback_icon
                 THEN /\ status'[old] = "live"
                      /\ ref_count'[old] = ref_count[old] - 1
                 ELSE /\ status[old] = "live" /\ status'[old] = "freed"
                      /\ ref_count[old] = 1 /\ ref_count'[old] = 0
                      /\ pixbuf_ref'[old] = IF pixbuf_ref[old] = NULL THEN 0
                                             ELSE pixbuf_ref[old] - 1
                      /\ next'[old] = NULL /\ prev'[old] = NULL
              /\ \A i \in DOMAIN status \ {old, icon_cache'[k]} :
                     status'[i] = status[i] /\ ref_count'[i] = ref_count[i]
              /\ err' = ""
              /\ Len(async_thumbnail_load_handles') =
                     Len(async_thumbnail_load_handles) - 1]_vars

\* two loads for one key were outstanding and both have arrived, the second
\* right after the first: one mapping for the key, the entry of the first
\* load freed, no handle left
C38_Witness ==
    /\ last_op.op = "loaded" /\ last_op.result
    /\ async_thumbnail_load_handles = << >>
    /\ MappingsFor(icon_cache, last_op.key) = {last_op.key}
    /\ \E i \in DOMAIN status : status[i] = "freed" /\ pixbuf_ref[i] = 0
    /\ sweep_timer # 0
    /\ recently_used_count = 1
    /\ next[icon_cache[last_op.key]] = NULL

\* ---------------------------------------------------------------- C39
\* C39: once the factory is finalized no sweep runs on it: the timeout that
\* was pending at finalize does not fire, so from a finalized factory no
\* step is a sweep, the pending timeout is not consumed and nothing reads
\* the freed factory or the destroyed table.
C39_NoSweepAfterFinalize ==
    [][pc = "finalized" =>
           /\ last_op'.op # "sweep"
           /\ pending_timeouts' = pending_timeouts
           /\ err' = err]_vars

\* ---------------------------------------------------------------- C40
\* a pending location change of the type completes: the new content view
\* reports that it is loading the pending location
HistoryStep(type) ==
    /\ window.pending_location # NULL
    /\ window.location_change_type = type
    /\ window.new_content_view # NULL
    /\ ~window.viewed_file_monitored
    /\ window'.viewed_file_monitored

\* a sequence, last element first
RevSeq(list) == [i \in 1..Len(list) |-> list[Len(list) + 1 - i]]

\* C40: going back by distance d, the back list being longer than d, puts
\* the location that was viewed and the first d bookmarks of the back list
\* on the forward list and takes d + 1 bookmarks off the back list, so the
\* two lists together are as long as before; and after a go-forward by the
\* same d that follows it, the back list, the forward list and the viewed
\* location are what they were before the go-back.
C40_BackThenForwardRestores ==
    [][/\ HistoryStep("back") =>
              LET d == window.location_change_distance
                  back == window.back_list
              IN /\ Len(back) > d
                 /\ window'.back_list = SubSeq(back, d + 2, Len(back))
                 /\ window'.forward_list =
                        RevSeq(SubSeq(back, 1, d))
                            \o <<nautilus_bookmark_new(window.location)>>
                            \o window.forward_list
                 /\ Len(window'.back_list) + Len(window'.forward_list) =
                        Len(back) + Len(window.forward_list)
       /\ round_trip'.stage = 2 =>
              /\ window'.back_list = round_trip'.back_list
              /\ window'.forward_list = round_trip'.forward_list
              /\ window'.location = round_trip'.location]_vars
====
